---- MODULE Spec2Model ----
(***************************************************************************)
(* VisionFi node-sdk command-line client.                                  *)
(*                                                                         *)
(* Two kinds of process are modelled.  Spec is the one-shot command        *)
(* processes of cli.ts (auth verify, analyze, results): each loads the     *)
(* configuration file, runs one core function and exits.  SessionSpec is   *)
(* the long-lived interactive session (class VisionFiCLI) with its         *)
(* workflow cache, its clock and the interactive-core functions.           *)
(* Every action is one whole call of a handler; what the remote API        *)
(* answers (or throws) is chosen nondeterministically.                     *)
(***************************************************************************)
EXTENDS Integers, Sequences, FiniteSets, TLC

VARIABLES
  config,             \* the configuration object held in memory by the process
  disk,               \* the configuration last written by saveConfig
  client,             \* VisionFiCLI.client: "null" or "client"
  cachedWorkflows,    \* VisionFiCLI._cachedWorkflows: Null or a getWorkflows response
  workflowsCachedAt,  \* VisionFiCLI._workflowsCachedAt (ms)
  workflowCacheTtl,   \* VisionFiCLI._workflowCacheTtl (seconds)
  now,                \* Date.now() (ms)
  last                \* the handler call that has just returned: inputs, steps, result

vars == <<config, disk, client, cachedWorkflows, workflowsCachedAt,
          workflowCacheTtl, now, last>>

-----------------------------------------------------------------------------
(* Bounds of the model.                                                    *)

\* Largest clock value explored (ms).
MaxNow == 2000
\* Granularity of the clock steps explored (ms).
ClockStep == 500

-----------------------------------------------------------------------------
(* Program constants.                                                      *)

DefaultPollInterval == 3000
DefaultMaxAttempts == 10
\* slice(0, 9): entries kept behind a newly recorded id
RecentKeep == 9
\* DEFAULT_CONFIG.workflow_cache_ttl
DefaultCacheTtl == 1200
MsPerSecond == 1000

-----------------------------------------------------------------------------
(* Values.                                                                 *)

Null == "null"
NoError == "none"

\* Job ids the remote API hands out / the user types.
Uuids == {"job-a", "job-b"}
\* Errors a remote call, the client factory or the file system may throw.
Errors == {"API error", "ECONNRESET"}
ServiceAccountPaths == {"", "/keys/sa.json"}
\* Cache TTLs (seconds) the session can be configured with.
Ttls == {0, 1}

\* A message is its fixed text and, for `${err.message}` templates, the detail.
Msg(text) == [text |-> text, detail |-> ""]
MsgErr(text, err) == [text |-> text, detail |-> err]

NoPayload == [kind |-> "none"]

\* The uniform result record of every core function.
Result(success, message, exitCode, error, payload) ==
  [success |-> success, message |-> message, exitCode |-> exitCode,
   error |-> error, payload |-> payload]

Fail(text) == Result(FALSE, Msg(text), 1, NoError, NoPayload)

\* Mutant: the caught error is reported in the message only.
FailErrWithoutError(text, err) == Result(FALSE, MsgErr(text, err), 1, NoError, NoPayload)

\* return { success: false, message: `...${err.message}`, exitCode: 1, error: err }
FailErr(text, err) == Result(FALSE, MsgErr(text, err), 1, err, NoPayload)

\* One step a handler takes that is visible outside it: a remote call on the
\* client, the client factory, a file-system access or saveConfig; with its
\* arguments and how it ended ("throw", or what it returned).
Call(fn, args, ret) == [fn |-> fn, args |-> args, ret |-> ret]

RemoteFns == {"verifyAuth", "getResults", "analyzeDocument", "getWorkflows",
              "getClientInfo"}

\* The remote calls among the steps of a handler, in order.
RemoteCalls(trace) == SelectSeq(trace, LAMBDA c : c.fn \in RemoteFns)
CallsOf(trace, fn) == SelectSeq(trace, LAMBDA c : c.fn = fn)

\* No response was received from the remote call the handler is about.
NoResponse == [kind |-> "none"]

\* What one call of a core function did: its result record, its steps in
\* order, the response its main remote call resolved to, the configuration
\* object as it left it and the configuration on disk.
Outcome(result, trace, resp, cfg, dsk) ==
  [result |-> result, trace |-> trace, resp |-> resp, config |-> cfg, disk |-> dsk]

-----------------------------------------------------------------------------
(* Strings are sequences of one-character strings; parseInt as JavaScript  *)
(* computes it in base 10.                                                 *)

Digits == {"0", "1", "2", "3", "4", "5", "6", "7", "8", "9"}
Whitespace == {" "}

DigitVal(c) ==
  CASE c = "0" -> 0 [] c = "1" -> 1 [] c = "2" -> 2 [] c = "3" -> 3
    [] c = "4" -> 4 [] c = "5" -> 5 [] c = "6" -> 6 [] c = "7" -> 7
    [] c = "8" -> 8 [] c = "9" -> 9

RECURSIVE SkipWhitespace(_)
SkipWhitespace(s) ==
  IF s # <<>> /\ Head(s) \in Whitespace THEN SkipWhitespace(Tail(s)) ELSE s

\* Value of the longest prefix of digits of s, continuing from acc.
RECURSIVE DigitsValue(_, _)
DigitsValue(s, acc) ==
  IF s # <<>> /\ Head(s) \in Digits
    THEN DigitsValue(Tail(s), 10 * acc + DigitVal(Head(s)))
    ELSE acc

\* parseInt(s, 10): [nan |-> TRUE] when no digit follows the optional sign.
ParseInt(s) ==
  LET t == SkipWhitespace(s)
      neg == t # <<>> /\ Head(t) = "-"
      u == IF t # <<>> /\ Head(t) \in {"-", "+"} THEN Tail(t) ELSE t
  IN IF u = <<>> \/ Head(u) \notin Digits
       THEN [nan |-> TRUE, n |-> 0]
       ELSE [nan |-> FALSE,
             n |-> IF neg THEN 0 - DigitsValue(u, 0) ELSE DigitsValue(u, 0)]

HexDigits == Digits \cup {"a", "b", "c", "d", "e", "f"}

HexVal(c) ==
  CASE c = "a" -> 10 [] c = "b" -> 11 [] c = "c" -> 12 [] c = "d" -> 13
    [] c = "e" -> 14 [] c = "f" -> 15 [] OTHER -> DigitVal(c)

\* Value of the longest prefix of hexadecimal digits of s, continuing from acc.
RECURSIVE HexDigitsValue(_, _)
HexDigitsValue(s, acc) ==
  IF s # <<>> /\ Head(s) \in HexDigits
    THEN HexDigitsValue(Tail(s), 16 * acc + HexVal(Head(s)))
    ELSE acc

\* parseInt(s) without a radix, on lower-case input: as parseInt(s, 10),
\* except that the prefix 0x selects base 16.
ParseIntAuto(s) ==
  LET t == SkipWhitespace(s)
      neg == t # <<>> /\ Head(t) = "-"
      u == IF t # <<>> /\ Head(t) \in {"-", "+"} THEN Tail(t) ELSE t
      hex == Len(u) >= 2 /\ u[1] = "0" /\ u[2] = "x"
      v == IF hex THEN SubSeq(u, 3, Len(u)) ELSE u
      value == IF hex THEN HexDigitsValue(v, 0) ELSE DigitsValue(v, 0)
  IN IF v = <<>> \/ Head(v) \notin (IF hex THEN HexDigits ELSE Digits)
       THEN [nan |-> TRUE, n |-> 0]
       ELSE [nan |-> FALSE, n |-> IF neg THEN 0 - value ELSE value]

-----------------------------------------------------------------------------
(* recent_uuids                                                            *)

Includes(list, x) == \E i \in 1..Len(list) : list[i] = x

Filter(list, x) == SelectSeq(list, LAMBDA u : u # x)

Slice(list, n) == SubSeq(list, 1, IF Len(list) < n THEN Len(list) ELSE n)

\* [uuid, ...recent.filter(u => u !== uuid).slice(0, 9)]
RecordUuid(list, uuid) == <<uuid>> \o Slice(Filter(list, uuid), RecentKeep)

-----------------------------------------------------------------------------
(* commands/results: getResultsCore                                        *)

\* Mutant: the result of verifyAuth is never looked at.
AuthFailedNever(auth) == FALSE

\* if (!authResult.data): verifyAuth resolved to a false value
AuthFailed(auth) == auth = "false"

\* Mutant: the service account path is never checked.
NoServiceAccountNever(cfg) == FALSE

\* if (!config.service_account_path)
NoServiceAccount(cfg) == cfg.service_account_path = ""

\* Mutant: the job id is never checked.
EmptyUuidNever(uuid) == FALSE

\* if (!uuid)
EmptyUuid(uuid) == uuid = ""

\* An option of the results command: absent, a number, or a string.
OptAbsent == [kind |-> "absent", n |-> 0, s |-> <<>>]
OptNumber(n) == [kind |-> "number", n |-> n, s |-> <<>>]
OptString(s) == [kind |-> "string", n |-> 0, s |-> s]

\* typeof o === 'string' ? parseInt(o, 10) : (o || default)
OptionValue(o, default) ==
  IF o.kind = "string" THEN ParseInt(o.s).n
  ELSE IF o.kind = "number" /\ o.n # 0 THEN o.n
  ELSE default

\* options.wait || false
ShouldWait(options) == options.wait = "true"

\* Mutant: the poll options are passed whether or not --wait is given.
GetResultsArgsIgnoreWait(uuid, options) ==
  <<uuid, OptionValue(options.pollInterval, DefaultPollInterval),
          OptionValue(options.maxAttempts, DefaultMaxAttempts)>>

\* The arguments of the one client.getResults call.
GetResultsArgs(uuid, options) ==
  IF ShouldWait(options)
    THEN <<uuid, OptionValue(options.pollInterval, DefaultPollInterval),
                 OptionValue(options.maxAttempts, DefaultMaxAttempts)>>
    ELSE <<uuid, 0, 1>>

\* Mutant: the error field is looked at before the results field.
ResultsOutcomeErrorFirst(resp) ==
  IF resp.error # Null
    THEN Result(FALSE, Msg("Analysis error occurred during processing."), 1, resp.error,
                [kind |-> "results", status |-> resp.status, results |-> Null])
  ELSE IF resp.results # Null
    THEN Result(TRUE, Msg("Results retrieved successfully!"), 0, NoError,
                [kind |-> "results", status |-> resp.status, results |-> resp.results])
  ELSE Result(TRUE, Msg("No results available yet. The job may still be processing."),
              0, NoError,
              [kind |-> "results", status |-> resp.status, results |-> Null])

\* The outcome chosen from what client.getResults resolved to.
ResultsOutcome(resp) ==
  IF resp.results # Null
    THEN Result(TRUE, Msg("Results retrieved successfully!"), 0, NoError,
                [kind |-> "results", status |-> resp.status, results |-> resp.results])
  ELSE IF resp.error # Null
    THEN Result(FALSE, Msg("Analysis error occurred during processing."), 1, resp.error,
                [kind |-> "results", status |-> resp.status, results |-> Null])
  ELSE Result(TRUE, Msg("No results available yet. The job may still be processing."),
              0, NoError,
              [kind |-> "results", status |-> resp.status, results |-> Null])

CallVerifyAuth(ret) == Call("verifyAuth", <<>>, ret)
CallFactory(cfg, ret) == Call("clientFactory", <<cfg.service_account_path>>, ret)
CallSave(cfg, ret) == Call("saveConfig", <<cfg>>, ret)
Returned(throws) == IF throws THEN "throw" ELSE "ok"

AlreadyListedNever(list, uuid) == FALSE
\* !config.recent_uuids.includes(uuid) is false: the id is in the list.
AlreadyListed(list, uuid) == Includes(list, uuid)

getResultsCore(uuid, options, cfg, dsk, env) ==
  IF NoServiceAccount(cfg)
    THEN Outcome(Fail("No service account configured. Run in interactive mode to set up a service account."),
                 <<>>, NoResponse, cfg, dsk)
  ELSE IF env.factory = "throw"
    THEN Outcome(FailErr("Unexpected error: ", env.err),
                 <<CallFactory(cfg, env.factory)>>, NoResponse, cfg, dsk)
  ELSE IF env.auth = "throw"
    THEN Outcome(FailErr("Authentication error: ", env.err),
                 <<CallFactory(cfg, env.factory), CallVerifyAuth(env.auth)>>, NoResponse, cfg, dsk)
  ELSE IF AuthFailed(env.auth)
    THEN Outcome(Fail("Authentication failed."),
                 <<CallFactory(cfg, env.factory), CallVerifyAuth(env.auth)>>, NoResponse, cfg, dsk)
  ELSE IF EmptyUuid(uuid)
    THEN Outcome(Fail("No job UUID specified."),
                 <<CallFactory(cfg, env.factory), CallVerifyAuth(env.auth)>>, NoResponse, cfg, dsk)
  ELSE
    LET record == ~AlreadyListed(cfg.recent_uuids, uuid)
        cfg2 == IF record
                  THEN [cfg EXCEPT !.recent_uuids = RecordUuid(cfg.recent_uuids, uuid)]
                  ELSE cfg
        t1 == <<CallFactory(cfg, env.factory), CallVerifyAuth(env.auth)>>
                \o (IF record THEN <<CallSave(cfg2, env.save)>> ELSE <<>>)
        dsk2 == IF record THEN cfg2 ELSE dsk
        t2 == t1 \o <<Call("getResults", GetResultsArgs(uuid, options), Returned(env.results.throws))>>
    IN IF record /\ env.save = "throw"
         THEN Outcome(FailErr("Unexpected error: ", env.err), t1, NoResponse, cfg2, dsk)
       ELSE IF env.results.throws
         THEN Outcome(FailErr("Failed to retrieve results: ", env.err),
                      t2, NoResponse, cfg2, dsk2)
       ELSE Outcome(ResultsOutcome(env.results), t2, env.results, cfg2, dsk2)

-----------------------------------------------------------------------------
(* commands/auth: authenticateWithApi                                      *)

authenticateWithApi(cfg, dsk, env) ==
  IF NoServiceAccount(cfg)
    THEN Outcome(Fail("Client not initialized. Please configure a service account first."),
                 <<>>, NoResponse, cfg, dsk)
  ELSE IF env.factory = "throw"
    THEN Outcome(FailErr("Authentication error: ", env.err),
                 <<CallFactory(cfg, env.factory)>>, NoResponse, cfg, dsk)
  ELSE IF env.auth = "throw"
    THEN Outcome(FailErr("Authentication error: ", env.err),
                 <<CallFactory(cfg, env.factory), CallVerifyAuth(env.auth)>>, NoResponse, cfg, dsk)
  ELSE
    LET data == env.auth = "true"
    IN Outcome(Result(data,
                      Msg(IF data THEN "Authentication successful!"
                                  ELSE "Authentication failed!"),
                      IF data THEN 0 ELSE 1, NoError,
                      [kind |-> "auth", data |-> data]),
               <<CallFactory(cfg, env.factory), CallVerifyAuth(env.auth)>>,
               [kind |-> "auth", data |-> data], cfg, dsk)

-----------------------------------------------------------------------------
(* commands/analyze: analyzeDocumentCore and the analyzeDocument wrapper   *)

\* Mutant: the workflow option is never checked.
MissingWorkflowNever(options) == FALSE

\* if (!options.workflow)
MissingWorkflow(options) == options.workflow = ""

\* Mutant: the result of existsSync is never looked at.
FileNotFoundNever(env) == FALSE

\* if (!fileSystem.existsSync(filePath))
FileNotFound(env) == ~env.fileExists

analyzeDocumentCore(filePath, options, cfg, dsk, env) ==
  IF NoServiceAccount(cfg)
    THEN Outcome(Fail("No service account configured. Run in interactive mode to set up a service account."),
                 <<>>, NoResponse, cfg, dsk)
  ELSE IF FileNotFound(env)
    THEN Outcome(Result(FALSE, MsgErr("File not found: ", filePath), 1, NoError, NoPayload),
                 <<Call("existsSync", <<filePath>>, IF env.fileExists THEN "true" ELSE "false")>>, NoResponse, cfg, dsk)
  ELSE
    LET t0 == <<Call("existsSync", <<filePath>>, IF env.fileExists THEN "true" ELSE "false"), CallFactory(cfg, env.factory)>>
        t1 == t0 \o <<CallVerifyAuth(env.auth)>>
        t2 == t1 \o <<Call("readFileSync", <<filePath>>, env.read)>>
        t3 == t2 \o <<Call("analyzeDocument", <<filePath, options.workflow>>,
                         Returned(env.analyze.throws))>>
    IN IF env.factory = "throw"
         THEN Outcome(FailErr("Unexpected error: ", env.err), t0, NoResponse, cfg, dsk)
       ELSE IF env.auth = "throw"
         THEN Outcome(FailErr("Authentication error: ", env.err), t1, NoResponse, cfg, dsk)
       ELSE IF AuthFailed(env.auth)
         THEN Outcome(Fail("Authentication failed."), t1, NoResponse, cfg, dsk)
       ELSE IF MissingWorkflow(options)
         THEN Outcome(Fail("No workflow specified. Use --workflow option to specify analysis workflow."),
                      t1, NoResponse, cfg, dsk)
       ELSE IF env.read = "throw"
         THEN Outcome(FailErr("Unexpected error: ", env.err), t2, NoResponse, cfg, dsk)
       ELSE IF env.analyze.throws
         THEN Outcome(FailErr("Error submitting document: ", env.err),
                      t3, NoResponse, cfg, dsk)
       ELSE IF env.analyze.uuid # ""
         THEN Outcome(Result(TRUE, Msg("Document submitted successfully!"), 0, NoError,
                             [kind |-> "analyze", uuid |-> env.analyze.uuid]),
                      t3, env.analyze, cfg, dsk)
       ELSE Outcome(Result(FALSE, Msg("Document submitted but no UUID was returned."),
                           1, NoError, [kind |-> "analyze", uuid |-> ""]),
                    t3, env.analyze, cfg, dsk)

\* The wrapper: the core, then on success the uuid is recorded and saved.
analyzeDocument(filePath, options, cfg, dsk, env) ==
  LET o == analyzeDocumentCore(filePath, options, cfg, dsk, env)
  IN IF o.result.success /\ o.result.payload.uuid # ""
       THEN LET cfg2 == [o.config EXCEPT
                           !.recent_uuids = RecordUuid(o.config.recent_uuids,
                                                       o.result.payload.uuid)]
            IN [o EXCEPT !.trace = o.trace \o <<CallSave(cfg2, env.save)>>,
                         !.config = cfg2,
                         !.disk = IF env.save = "throw" THEN o.disk ELSE cfg2]
       ELSE o

-----------------------------------------------------------------------------
(* More string operations of JavaScript, on sequences of characters.       *)

DigitChar(d) ==
  CASE d = 0 -> "0" [] d = 1 -> "1" [] d = 2 -> "2" [] d = 3 -> "3"
    [] d = 4 -> "4" [] d = 5 -> "5" [] d = 6 -> "6" [] d = 7 -> "7"
    [] d = 8 -> "8" [] d = 9 -> "9"

\* n.toString() for an integer n.
RECURSIVE NatToString(_)
NatToString(n) ==
  IF n < 0 THEN <<"-">> \o NatToString(0 - n)
  ELSE IF n < 10 THEN <<DigitChar(n)>>
  ELSE NatToString(n \div 10) \o <<DigitChar(n % 10)>>

RECURSIVE TrimEnd(_)
TrimEnd(s) ==
  IF s # <<>> /\ s[Len(s)] \in Whitespace THEN TrimEnd(SubSeq(s, 1, Len(s) - 1)) ELSE s

Trim(s) == TrimEnd(SkipWhitespace(s))

LowerChar(c) ==
  CASE c = "S" -> "s" [] c = "M" -> "m" [] c = "H" -> "h" [] c = "X" -> "x"
    [] OTHER -> c

ToLowerCase(s) == [i \in 1..Len(s) |-> LowerChar(s[i])]

EndsWith(s, c) == s # <<>> /\ s[Len(s)] = c

\* s.slice(0, -1)
DropLast(s) == IF s = <<>> THEN s ELSE SubSeq(s, 1, Len(s) - 1)

-----------------------------------------------------------------------------
(* commands/interactive-core                                               *)

\* Mutant: the unit is always in the plural.
formatCacheTtlCoreAlwaysPlural(seconds) ==
  LET minutes == seconds \div 60
      hours == seconds \div 3600
      formattedString ==
        IF seconds < 60 THEN NatToString(seconds) \o <<" ", "seconds">>
        ELSE IF seconds < 3600 THEN NatToString(minutes) \o <<" ", "minutes">>
        ELSE NatToString(hours) \o <<" ", "hours">>
  IN Result(TRUE, [text |-> formattedString, detail |-> ""], 0, NoError,
            [kind |-> "ttl", seconds |-> seconds, formattedString |-> formattedString])

\* formatCacheTtlCore: the formatted string is the number, a space, the unit.
formatCacheTtlCore(seconds) ==
  LET minutes == seconds \div 60
      hours == seconds \div 3600
      formattedString ==
        IF seconds < 60 THEN NatToString(seconds) \o <<" ", "seconds">>
        ELSE IF seconds < 3600
          THEN NatToString(minutes) \o <<" ", IF minutes # 1 THEN "minutes" ELSE "minute">>
        ELSE NatToString(hours) \o <<" ", IF hours # 1 THEN "hours" ELSE "hour">>
  IN Result(TRUE, [text |-> formattedString, detail |-> ""], 0, NoError,
            [kind |-> "ttl", seconds |-> seconds, formattedString |-> formattedString])

\* parseWorkflowCacheTtlCore; a NaN is carried as [nan |-> TRUE].  Nothing in
\* the try block throws for a string, so the catch branch ("Invalid format.
\* Examples: 30s, 10m, 2h") is never taken.
parseWorkflowCacheTtlCore(input) ==
  LET normalizedInput == ToLowerCase(Trim(input))
      scaled(p, k) == [nan |-> p.nan, n |-> p.n * k]
      seconds ==
        IF EndsWith(normalizedInput, "s") THEN ParseIntAuto(DropLast(normalizedInput))
        ELSE IF EndsWith(normalizedInput, "m")
          THEN scaled(ParseIntAuto(DropLast(normalizedInput)), 60)
        ELSE IF EndsWith(normalizedInput, "h")
          THEN scaled(ParseIntAuto(DropLast(normalizedInput)), 3600)
        ELSE ParseIntAuto(normalizedInput)
  IN IF seconds.nan \/ seconds.n < 0
       THEN Fail("Invalid cache TTL. Must be a positive number.")
       ELSE Result(TRUE, Msg("Cache TTL parsed successfully"), 0, NoError,
                   [kind |-> "ttl", seconds |-> seconds.n,
                    formattedString |-> formatCacheTtlCore(seconds.n).message.text])

\* The absent cache entry, and what client.getWorkflows may resolve to.
NullWorkflows == [kind |-> "null"]
WorkflowLists == {<<"invoice">>, <<"contract", "invoice">>}
WorkflowResponses ==
  {[kind |-> "response", success |-> TRUE, data |-> l] : l \in WorkflowLists}
    \cup {[kind |-> "response", success |-> FALSE, data |-> <<>>]}

\* Mutant: an entry exactly ttl seconds old already counts as expired.
ShouldFetchFromApiAtTtl(forceRefresh, cached, cachedAt, ttl, nowv) ==
  \/ forceRefresh
  \/ cached = NullWorkflows
  \/ nowv - cachedAt >= ttl * MsPerSecond

\* Mutant: the forceRefresh flag is ignored.
ShouldFetchFromApiUnforced(forceRefresh, cached, cachedAt, ttl, nowv) ==
  \/ cached = NullWorkflows
  \/ nowv - cachedAt > ttl * MsPerSecond

\* The cache is stale, absent, or a refresh is forced.
ShouldFetchFromApi(forceRefresh, cached, cachedAt, ttl, nowv) ==
  \/ forceRefresh
  \/ cached = NullWorkflows
  \/ nowv - cachedAt > ttl * MsPerSecond

getWorkflowsCore(clnt, forceRefresh, cached, cachedAt, ttl, nowv, env) ==
  IF clnt = Null
    THEN Outcome(Fail("Client not initialized"), <<>>, NoResponse, NoResponse, NoResponse)
  ELSE IF ShouldFetchFromApi(forceRefresh, cached, cachedAt, ttl, nowv)
    THEN IF env.workflows.throws
           THEN Outcome(FailErr("Error fetching workflows: ", env.err),
                        <<Call("getWorkflows", <<>>, Returned(env.workflows.throws))>>, NoResponse, NoResponse, NoResponse)
         ELSE IF env.workflows.response.success
           THEN Outcome(Result(TRUE, Msg("Workflows fetched successfully"), 0, NoError,
                               [kind |-> "workflows",
                                workflows |-> env.workflows.response,
                                cachedAt |-> nowv, fromCache |-> FALSE]),
                        <<Call("getWorkflows", <<>>, Returned(env.workflows.throws))>>, env.workflows.response,
                        NoResponse, NoResponse)
         ELSE Outcome(Result(FALSE, Msg("Failed to fetch workflows"), 1, NoError,
                             [kind |-> "failed", response |-> env.workflows.response]),
                      <<Call("getWorkflows", <<>>, Returned(env.workflows.throws))>>, env.workflows.response,
                      NoResponse, NoResponse)
  ELSE Outcome(Result(TRUE, Msg("Using cached workflows"), 0, NoError,
                      [kind |-> "workflows", workflows |-> cached,
                       cachedAt |-> cachedAt, fromCache |-> TRUE]),
               <<>>, NoResponse, NoResponse, NoResponse)

\* interactive-core's getResultsCore(client, uuid)
getResultsCoreInteractive(clnt, uuid, env) ==
  IF clnt = Null
    THEN Outcome(Fail("Client not initialized"), <<>>, NoResponse, NoResponse, NoResponse)
  ELSE
    LET t == <<Call("getResults", <<uuid>>, Returned(env.results.throws))>>
        resp == env.results
        data == [kind |-> "results", status |-> resp.status, results |-> resp.results]
    IN IF resp.throws
         THEN Outcome(FailErr("Failed to retrieve results: ", env.err),
                      t, NoResponse, NoResponse, NoResponse)
       ELSE IF resp.results # Null
         THEN Outcome(Result(TRUE, Msg("Results retrieved successfully"), 0, NoError, data),
                      t, resp, NoResponse, NoResponse)
       ELSE IF resp.error # Null
         THEN Outcome(Result(FALSE, Msg("Analysis error"), 1, resp.error, data),
                      t, resp, NoResponse, NoResponse)
       ELSE Outcome(Result(FALSE,
                           Msg("No results available yet. The job may still be processing."),
                           0, NoError, data),
                    t, resp, NoResponse, NoResponse)

\* interactive-core's analyzeDocumentCore(client, fileData, fileName, workflowKey, config)
analyzeDocumentCoreInteractive(clnt, fileName, workflowKey, cfg, dsk, env) ==
  IF clnt = Null
    THEN Outcome(Fail("Client not initialized"), <<>>, NoResponse, cfg, dsk)
  ELSE
    LET t == <<Call("analyzeDocument", <<fileName, workflowKey>>,
                    Returned(env.analyze.throws))>>
        uuid == env.analyze.uuid
        updatedConfig == [cfg EXCEPT !.recent_uuids = RecordUuid(cfg.recent_uuids, uuid)]
    IN IF env.analyze.throws
         THEN Outcome(FailErr("Error submitting document: ", env.err),
                      t, NoResponse, cfg, dsk)
       ELSE IF uuid # "" /\ env.save = "throw"
         THEN Outcome(FailErr("Error submitting document: ", env.err),
                      t \o <<CallSave(updatedConfig, env.save)>>, env.analyze, cfg, dsk)
       ELSE IF uuid # ""
         THEN Outcome(Result(TRUE, Msg("Document submitted successfully"), 0, NoError,
                             [kind |-> "analyze", uuid |-> uuid, config |-> updatedConfig]),
                      t \o <<CallSave(updatedConfig, env.save)>>, env.analyze, cfg, updatedConfig)
       ELSE Outcome(Result(FALSE, Msg("Document submitted but no UUID was returned"),
                           1, NoError, [kind |-> "analyze", uuid |-> ""]),
                    t, env.analyze, cfg, dsk)

verifyAuthenticationCore(clnt, env) ==
  IF clnt = Null
    THEN Outcome(Fail("Client not initialized"), <<>>, NoResponse, NoResponse, NoResponse)
  ELSE IF env.auth = "throw"
    THEN Outcome(FailErr("Authentication test failed: ", env.err),
                 <<CallVerifyAuth(env.auth)>>, NoResponse, NoResponse, NoResponse)
  ELSE IF env.auth = "true"
    THEN Outcome(Result(TRUE, Msg("Authentication successful"), 0, NoError,
                        [kind |-> "auth", data |-> TRUE]),
                 <<CallVerifyAuth(env.auth)>>, [kind |-> "auth", data |-> TRUE],
                 NoResponse, NoResponse)
  ELSE Outcome(Result(FALSE,
                      Msg("Authentication check returned without error, but may not be fully authenticated"),
                      1, NoError, [kind |-> "auth", data |-> FALSE]),
               <<CallVerifyAuth(env.auth)>>, [kind |-> "auth", data |-> FALSE],
               NoResponse, NoResponse)

getClientInfoCore(clnt, env) ==
  IF clnt = Null
    THEN Outcome(Fail("Client not initialized"), <<>>, NoResponse, NoResponse, NoResponse)
  ELSE IF env.info.throws
    THEN Outcome(FailErr("Error retrieving client information: ", env.err),
                 <<Call("getClientInfo", <<>>, Returned(env.info.throws))>>, NoResponse, NoResponse, NoResponse)
  ELSE IF env.info.success /\ env.info.data # Null
    THEN Outcome(Result(TRUE, Msg("Client information retrieved successfully"), 0, NoError,
                        [kind |-> "info", data |-> env.info.data]),
                 <<Call("getClientInfo", <<>>, Returned(env.info.throws))>>, env.info, NoResponse, NoResponse)
  ELSE Outcome(Result(FALSE, Msg("Failed to retrieve client information"), 1, NoError,
                      [kind |-> "info", data |-> env.info.data]),
               <<Call("getClientInfo", <<>>, Returned(env.info.throws))>>, env.info, NoResponse, NoResponse)

initializeClientCore(serviceAccountPath, env) ==
  IF env.factory = "throw"
    THEN Outcome(FailErr("Failed to initialize client: ", env.err),
                 <<Call("clientFactory", <<serviceAccountPath>>, env.factory)>>,
                 NoResponse, NoResponse, NoResponse)
    ELSE Outcome(Result(TRUE, Msg("Client initialized successfully"), 0, NoError,
                        [kind |-> "client", client |-> "client"]),
                 <<Call("clientFactory", <<serviceAccountPath>>, env.factory)>>,
                 NoResponse, NoResponse, NoResponse)

-----------------------------------------------------------------------------
(* What the environment (remote API, client factory, file system) does in  *)
(* one handler call, and the inputs of the handlers.                       *)

ResultsResponses ==
  [throws : {FALSE}, status : {"processing", "processed"},
   results : {Null, "results-1"}, error : {Null, "error-1"}]
ResultsThrows == [throws |-> TRUE, status |-> "", results |-> Null, error |-> Null]

AnalyzeResponses == [throws : {FALSE}, uuid : Uuids \cup {""}]
AnalyzeThrows == [throws |-> TRUE, uuid |-> ""]

WorkflowAnswers == [throws : {FALSE}, response : WorkflowResponses]
WorkflowThrows ==
  [throws |-> TRUE, response |-> [kind |-> "response", success |-> FALSE, data |-> <<>>]]

InfoResponses == [throws : {FALSE}, success : BOOLEAN, data : {Null, "client-info"}]
InfoThrows == [throws |-> TRUE, success |-> FALSE, data |-> Null]

\* Nothing fails: the client is built, authentication holds, the job is pending.
EnvOk ==
  [factory |-> "ok", auth |-> "true", save |-> "ok", read |-> "ok",
   fileExists |-> TRUE,
   results |-> [throws |-> FALSE, status |-> "processing", results |-> Null, error |-> Null],
   analyze |-> [throws |-> FALSE, uuid |-> "job-a"],
   workflows |-> [throws |-> FALSE,
                  response |-> [kind |-> "response", success |-> TRUE, data |-> <<"invoice">>]],
   info |-> [throws |-> FALSE, success |-> TRUE, data |-> "client-info"],
   err |-> "API error"]

FactoryEnvs == {EnvOk} \cup {[EnvOk EXCEPT !.factory = "throw", !.err = e] : e \in Errors}
AuthEnvs ==
  FactoryEnvs \cup {[EnvOk EXCEPT !.auth = "false"]}
    \cup {[EnvOk EXCEPT !.auth = "throw", !.err = e] : e \in Errors}

ResultsEnvs ==
  AuthEnvs
    \cup {[EnvOk EXCEPT !.save = "throw", !.err = e] : e \in Errors}
    \cup {[EnvOk EXCEPT !.results = r] : r \in ResultsResponses}
    \cup {[EnvOk EXCEPT !.results = ResultsThrows, !.err = e] : e \in Errors}

AnalyzeEnvs ==
  AuthEnvs
    \cup {[EnvOk EXCEPT !.fileExists = FALSE]}
    \cup {[EnvOk EXCEPT !.read = "throw", !.err = e] : e \in Errors}
    \cup {[EnvOk EXCEPT !.save = "throw", !.err = e] : e \in Errors}
    \cup {[EnvOk EXCEPT !.analyze = a] : a \in AnalyzeResponses}
    \cup {[EnvOk EXCEPT !.analyze = AnalyzeThrows, !.err = e] : e \in Errors}

WorkflowEnvs ==
  {[EnvOk EXCEPT !.workflows = w] : w \in WorkflowAnswers}
    \cup {[EnvOk EXCEPT !.workflows = WorkflowThrows, !.err = e] : e \in Errors}

InfoEnvs ==
  {[EnvOk EXCEPT !.info = i] : i \in InfoResponses}
    \cup {[EnvOk EXCEPT !.info = InfoThrows, !.err = e] : e \in Errors}

\* Options of the results command: --wait, --poll-interval, --max-attempts.
PollIntervalOptions ==
  {OptAbsent, OptNumber(0), OptNumber(500), OptString(<<"0">>), OptString(<<"2", "5", "0">>)}
MaxAttemptsOptions == {OptAbsent, OptNumber(2), OptString(<<"7">>)}
Options(w, p, m) == [wait |-> w, pollInterval |-> p, maxAttempts |-> m]
ResultsOptions ==
  {Options("true", p, OptAbsent) : p \in PollIntervalOptions}
    \cup {Options("true", OptAbsent, m) : m \in MaxAttemptsOptions}
    \cup {Options(w, OptNumber(500), OptNumber(2)) : w \in {"absent", "false", "true"}}
    \cup {Options(w, OptString(<<"2", "5", "0">>), OptString(<<"7">>)) : w \in {"false", "true"}}
    \cup {Options(w, OptAbsent, OptAbsent) : w \in {"absent", "false"}}

FilePaths == {"/docs/invoice.pdf"}
WorkflowKeys == {"", "invoice"}

\* A record of the last handler call.
LastCall(op, input, before, o, returned) ==
  [op |-> op, input |-> input, before |-> before, trace |-> o.trace,
   result |-> o.result, resp |-> o.resp, returned |-> returned]

NoCall ==
  [op |-> "none", input |-> NoResponse, before |-> NoResponse, trace |-> <<>>,
   result |-> Result(TRUE, Msg(""), 0, NoError, NoPayload), resp |-> NoResponse,
   returned |-> NoResponse]

Configs(ttls) ==
  [service_account_path : ServiceAccountPaths, recent_uuids : {<<>>},
   workflow_cache_ttl : ttls]

sessionVars == <<client, cachedWorkflows, workflowsCachedAt, workflowCacheTtl, now>>

-----------------------------------------------------------------------------
(* The command processes of cli.ts.                                        *)

Init ==
  /\ disk \in Configs({DefaultCacheTtl})
  /\ config = disk
  /\ client = Null
  /\ cachedWorkflows = NullWorkflows
  /\ workflowsCachedAt = 0
  /\ workflowCacheTtl = DefaultCacheTtl
  /\ now = ClockStep
  /\ last = NoCall

\* visionfi results <uuid> [--wait] [--poll-interval ms] [--max-attempts n]
ResultsCommand ==
  \E uuid \in Uuids \cup {""}, options \in ResultsOptions, env \in ResultsEnvs :
    LET o == getResultsCore(uuid, options, disk, disk, env)
    IN /\ config' = o.config
       /\ disk' = o.disk
       /\ last' = LastCall("results", [uuid |-> uuid, options |-> options], disk, o, NoResponse)
       /\ UNCHANGED sessionVars

\* visionfi analyze <file> --workflow <key>
AnalyzeCommand ==
  \E filePath \in FilePaths, workflow \in WorkflowKeys, env \in AnalyzeEnvs :
    LET o == analyzeDocumentCore(filePath, [workflow |-> workflow], disk, disk, env)
    IN /\ config' = o.config
       /\ disk' = o.disk
       /\ last' = LastCall("analyze", [filePath |-> filePath, workflow |-> workflow], disk, o,
                           NoResponse)
       /\ UNCHANGED sessionVars

\* The analyzeDocument wrapper of commands/analyze.
AnalyzeDocumentWrapper ==
  \E filePath \in FilePaths, workflow \in WorkflowKeys, env \in AnalyzeEnvs :
    LET o == analyzeDocument(filePath, [workflow |-> workflow], disk, disk, env)
    IN /\ config' = o.config
       /\ disk' = o.disk
       /\ last' = LastCall("analyzeDocument",
                           [filePath |-> filePath, workflow |-> workflow], disk, o,
                           NoResponse)
       /\ UNCHANGED sessionVars

\* visionfi auth verify
AuthVerifyCommand ==
  \E env \in AuthEnvs :
    LET o == authenticateWithApi(disk, disk, env)
    IN /\ config' = o.config
       /\ disk' = o.disk
       /\ last' = LastCall("auth", NoResponse, disk, o, NoResponse)
       /\ UNCHANGED sessionVars

Next ==
  \/ ResultsCommand
  \/ AnalyzeCommand
  \/ AnalyzeDocumentWrapper
  \/ AuthVerifyCommand

Spec == Init /\ [][Next]_vars

-----------------------------------------------------------------------------
(* The interactive session: class VisionFiCLI.                             *)

SessionInit ==
  /\ disk \in Configs(Ttls)
  /\ config = disk
  /\ client = Null
  /\ cachedWorkflows = NullWorkflows
  /\ workflowsCachedAt = 0
  /\ workflowCacheTtl = config.workflow_cache_ttl
  /\ now = ClockStep
  /\ last = NoCall

\* The session's state as a handler finds it.
Before ==
  [config |-> config, cachedWorkflows |-> cachedWorkflows,
   workflowsCachedAt |-> workflowsCachedAt, workflowCacheTtl |-> workflowCacheTtl]

\* Mutant: a failed fetch drops the cached entry.
NewCachedWorkflowsDropOnFailure(result, cached) ==
  IF ~result.success THEN NullWorkflows
  ELSE IF ~result.payload.fromCache THEN result.payload.workflows ELSE cached

\* getCachedWorkflows: a successful result that did not come from the cache
\* replaces the cached entry and its timestamp.
NewCachedWorkflows(result, cached) ==
  IF result.success /\ ~result.payload.fromCache THEN result.payload.workflows ELSE cached

\* Mutant: the timestamp of a fetched entry is never stored.
NewWorkflowsCachedAtKeepsOld(result, cachedAt) == cachedAt

\* this._workflowsCachedAt = result.data?.cachedAt, under the same condition.
NewWorkflowsCachedAt(result, cachedAt) ==
  IF result.success /\ ~result.payload.fromCache THEN result.payload.cachedAt ELSE cachedAt

\* How a menu handler of the session ended: it returned to the main menu
\* loop, or an exception left it, which nothing in runMainMenu catches, so
\* that the loop and with it the session end.
MenuReturns == [kind |-> "returned"]
MenuThrows == [kind |-> "TypeError"]

\* while (running): the main menu loop is still dispatching.
Running == last.returned # MenuThrows

\* How long a remote call may take (ms), the clock staying within MaxNow.
Durations == {d \in {0, ClockStep} : now + d <= MaxNow}

\* The clock advances between two handler calls.
Tick ==
  /\ Running
  /\ now + ClockStep <= MaxNow
  /\ now' = now + ClockStep
  /\ last' = [NoCall EXCEPT !.op = "tick"]
  /\ UNCHANGED <<config, disk, client, cachedWorkflows, workflowsCachedAt,
                 workflowCacheTtl>>

\* VisionFiCLI.initializeClient
InitializeClient ==
  /\ Running
  /\ client = Null
  /\ config.service_account_path # ""
  /\ \E env \in FactoryEnvs :
       LET o == initializeClientCore(config.service_account_path, env)
       IN /\ client' = IF o.result.success THEN o.result.payload.client ELSE client
          /\ last' = LastCall("initializeClient", NoResponse, Before, o, NoResponse)
  /\ UNCHANGED <<config, disk, cachedWorkflows, workflowsCachedAt, workflowCacheTtl, now>>

\* VisionFiCLI.getCachedWorkflows(forceRefresh)
GetCachedWorkflows ==
  \E forceRefresh \in BOOLEAN, env \in WorkflowEnvs, d \in Durations :
    LET o == getWorkflowsCore(client, forceRefresh, cachedWorkflows, workflowsCachedAt,
                              workflowCacheTtl, now, env)
        called == o.trace # <<>>
    IN /\ Running
       /\ cachedWorkflows' = NewCachedWorkflows(o.result, cachedWorkflows)
       /\ workflowsCachedAt' = NewWorkflowsCachedAt(o.result, workflowsCachedAt)
       /\ now' = IF called THEN now + d ELSE now
       /\ (~called => d = 0)
       /\ last' = LastCall("getCachedWorkflows",
                           [forceRefresh |-> forceRefresh, now |-> now], Before, o,
                           NewCachedWorkflows(o.result, cachedWorkflows))
       /\ UNCHANGED <<config, disk, client, workflowCacheTtl>>

\* One call of getCachedWorkflows on the given cache fields: the outcome of
\* getWorkflowsCore, the cache fields afterwards and the value returned.
CachedWorkflowsCall(cached, cachedAt, nowv, env) ==
  LET o == getWorkflowsCore(client, FALSE, cached, cachedAt, workflowCacheTtl, nowv, env)
  IN [o |-> o,
      cachedWorkflows |-> NewCachedWorkflows(o.result, cached),
      workflowsCachedAt |-> NewWorkflowsCachedAt(o.result, cachedAt),
      returned |-> NewCachedWorkflows(o.result, cached)]

\* if (workflows.success && workflows.data): reading a field of null throws.
DisplayThrows(workflows) == workflows = NullWorkflows

\* VisionFiCLI.showDocumentAnalysisMenu, up to the user's choice "b" (back):
\* getCachedWorkflows() is awaited once to load the list and once more to
\* display it, and the fields of what the second call returned are read.
ShowDocumentAnalysisMenu ==
  /\ Running
  /\ client # Null
  /\ \E env1 \in WorkflowEnvs, env2 \in WorkflowEnvs, d \in Durations :
       LET c1 == CachedWorkflowsCall(cachedWorkflows, workflowsCachedAt, now, env1)
           now1 == IF c1.o.trace # <<>> THEN now + d ELSE now
           c2 == CachedWorkflowsCall(c1.cachedWorkflows, c1.workflowsCachedAt, now1, env2)
       IN /\ (c1.o.trace = <<>> => d = 0)
          /\ cachedWorkflows' = c2.cachedWorkflows
          /\ workflowsCachedAt' = c2.workflowsCachedAt
          /\ now' = now1
          /\ last' = [op |-> "showDocumentAnalysisMenu",
                      input |-> [now |-> now],
                      before |-> Before,
                      trace |-> c1.o.trace \o c2.o.trace,
                      result |-> c2.o.result,
                      resp |-> c2.o.resp,
                      returned |-> IF DisplayThrows(c2.returned)
                                     THEN MenuThrows ELSE MenuReturns]
  /\ UNCHANGED <<config, disk, client, workflowCacheTtl>>

\* VisionFiCLI.clearWorkflowCache
ClearWorkflowCache ==
  /\ Running
  /\ cachedWorkflows' = NullWorkflows
  /\ workflowsCachedAt' = 0
  /\ last' = [NoCall EXCEPT !.op = "clearWorkflowCache"]
  /\ UNCHANGED <<config, disk, client, workflowCacheTtl, now>>

\* VisionFiCLI.setWorkflowCacheTtl(seconds)
SetWorkflowCacheTtl ==
  \E seconds \in Ttls :
    LET parseResult == parseWorkflowCacheTtlCore(NatToString(seconds))
        cfg2 == [config EXCEPT !.workflow_cache_ttl = parseResult.payload.seconds]
    IN /\ Running
       /\ last' = [NoCall EXCEPT !.op = "setWorkflowCacheTtl",
                                 !.input = [seconds |-> seconds],
                                 !.result = parseResult]
       /\ IF parseResult.success
            THEN /\ workflowCacheTtl' = parseResult.payload.seconds
                 /\ config' = cfg2
                 /\ disk' = cfg2
            ELSE UNCHANGED <<workflowCacheTtl, config, disk>>
       /\ UNCHANGED <<client, cachedWorkflows, workflowsCachedAt, now>>

\* showResultsMenu, the client being initialized: getResultsCore(this.client, uuid)
\* for a non-empty uuid
SessionGetResults ==
  \E uuid \in Uuids,
     env \in {[EnvOk EXCEPT !.results = r] : r \in ResultsResponses}
               \cup {[EnvOk EXCEPT !.results = ResultsThrows, !.err = e] : e \in Errors} :
    LET o == getResultsCoreInteractive(client, uuid, env)
    IN /\ Running
       /\ client # Null
       /\ last' = LastCall("sessionGetResults", [uuid |-> uuid], Before, o, NoResponse)
       /\ UNCHANGED <<config, disk, client, cachedWorkflows, workflowsCachedAt,
                      workflowCacheTtl, now>>

\* showDocumentAnalysisMenu: analyzeDocumentCore(this.client, ...) and the
\* configuration it hands back
SessionAnalyze ==
  \E fileName \in FilePaths, workflowKey \in WorkflowKeys \ {""},
     env \in {[EnvOk EXCEPT !.analyze = a] : a \in AnalyzeResponses}
               \cup {[EnvOk EXCEPT !.analyze = AnalyzeThrows, !.err = e] : e \in Errors}
               \cup {[EnvOk EXCEPT !.save = "throw", !.err = e] : e \in Errors} :
    LET o == analyzeDocumentCoreInteractive(client, fileName, workflowKey, config, disk, env)
    IN /\ Running
       /\ client # Null
       /\ last' = LastCall("sessionAnalyze",
                           [fileName |-> fileName, workflowKey |-> workflowKey],
                           Before, o, NoResponse)
       /\ config' = IF o.result.success THEN o.result.payload.config ELSE config
       /\ disk' = o.disk
       /\ UNCHANGED <<client, cachedWorkflows, workflowsCachedAt, workflowCacheTtl, now>>

\* runMainMenu / Test Authentication: verifyAuthenticationCore(this.client)
VerifyAuthentication ==
  \E env \in (AuthEnvs \ FactoryEnvs) \cup {EnvOk} :
    LET o == verifyAuthenticationCore(client, env)
    IN /\ Running
       /\ last' = LastCall("verifyAuthentication", NoResponse, Before, o, NoResponse)
       /\ UNCHANGED <<config, disk, client, cachedWorkflows, workflowsCachedAt,
                      workflowCacheTtl, now>>

\* Get Client Info: getClientInfoCore(this.client)
GetClientInfo ==
  \E env \in InfoEnvs :
    LET o == getClientInfoCore(client, env)
    IN /\ Running
       /\ last' = LastCall("getClientInfo", NoResponse, Before, o, NoResponse)
       /\ UNCHANGED <<config, disk, client, cachedWorkflows, workflowsCachedAt,
                      workflowCacheTtl, now>>

SessionNext ==
  \/ Tick
  \/ InitializeClient
  \/ GetCachedWorkflows
  \/ ShowDocumentAnalysisMenu
  \/ ClearWorkflowCache
  \/ SetWorkflowCacheTtl
  \/ SessionGetResults
  \/ SessionAnalyze
  \/ VerifyAuthentication
  \/ GetClientInfo

SessionSpec == SessionInit /\ [][SessionNext]_vars

-----------------------------------------------------------------------------
(* The recent-jobs list over a configuration file that already holds ids:  *)
(* commands run one after the other, then an interactive session.          *)

JobIds == {"j01", "j02", "j03", "j04", "j05", "j06", "j07", "j08", "j09", "j10", "j11"}

\* A configuration file holding ten ids, the most recent first.
RecentFull == <<"j01", "j02", "j03", "j04", "j05", "j06", "j07", "j08", "j09", "j10">>

\* The ids the commands are given: the first, a middle one, the oldest and a new one.
RecentInputs == {"j01", "j05", "j10", "j11"}

RecentInit ==
  /\ disk \in [service_account_path : {"/keys/sa.json"},
               recent_uuids : {<<>>, SubSeq(RecentFull, 1, 9), RecentFull},
               workflow_cache_ttl : {DefaultCacheTtl}]
  /\ config = disk
  /\ client = Null
  /\ cachedWorkflows = NullWorkflows
  /\ workflowsCachedAt = 0
  /\ workflowCacheTtl = DefaultCacheTtl
  /\ now = ClockStep
  /\ last = NoCall

\* visionfi results <uuid>
RecentResults ==
  /\ client = Null
  /\ \E uuid \in RecentInputs,
        env \in {EnvOk, [EnvOk EXCEPT !.auth = "false"], [EnvOk EXCEPT !.save = "throw"]} :
       LET options == Options("absent", OptAbsent, OptAbsent)
           o == getResultsCore(uuid, options, disk, disk, env)
       IN /\ config' = o.config
          /\ disk' = o.disk
          /\ last' = LastCall("results", [uuid |-> uuid, options |-> options], disk, o,
                              NoResponse)
  /\ UNCHANGED sessionVars

\* The analyzeDocument wrapper, the service answering with a job id.
RecentAnalyzeDocument ==
  /\ client = Null
  /\ \E uuid \in RecentInputs, filePath \in FilePaths, save \in {"ok", "throw"} :
       LET env == [EnvOk EXCEPT !.analyze = [throws |-> FALSE, uuid |-> uuid],
                                !.save = save]
           o == analyzeDocument(filePath, [workflow |-> "invoice"], disk, disk, env)
       IN /\ config' = o.config
          /\ disk' = o.disk
          /\ last' = LastCall("analyzeDocument",
                              [filePath |-> filePath, workflow |-> "invoice"], disk, o,
                              NoResponse)
  /\ UNCHANGED sessionVars

\* new VisionFiCLI(): the configuration is loaded and the client initialized.
RecentSessionStart ==
  /\ client = Null
  /\ \E env \in FactoryEnvs :
       LET o == initializeClientCore(disk.service_account_path, env)
       IN /\ config' = disk
          /\ workflowCacheTtl' = disk.workflow_cache_ttl
          /\ client' = IF o.result.success THEN o.result.payload.client ELSE client
          /\ last' = LastCall("initializeClient", NoResponse,
                              [Before EXCEPT !.config = disk], o, NoResponse)
  /\ UNCHANGED <<disk, cachedWorkflows, workflowsCachedAt, now>>

\* showDocumentAnalysisMenu: a document is submitted from the session.
RecentSessionAnalyze ==
  /\ client # Null
  /\ \E uuid \in RecentInputs, fileName \in FilePaths, save \in {"ok", "throw"} :
       LET env == [EnvOk EXCEPT !.analyze = [throws |-> FALSE, uuid |-> uuid],
                                !.save = save]
           o == analyzeDocumentCoreInteractive(client, fileName, "invoice", config, disk, env)
       IN /\ last' = LastCall("sessionAnalyze",
                              [fileName |-> fileName, workflowKey |-> "invoice"],
                              Before, o, NoResponse)
          /\ config' = IF o.result.success THEN o.result.payload.config ELSE config
          /\ disk' = o.disk
  /\ UNCHANGED <<client, cachedWorkflows, workflowsCachedAt, workflowCacheTtl, now>>

RecentNext ==
  \/ RecentResults
  \/ RecentAnalyzeDocument
  \/ RecentSessionStart
  \/ RecentSessionAnalyze

RecentSpec == RecentInit /\ [][RecentNext]_vars

-----------------------------------------------------------------------------
(* Every core function in one system: an interactive session, and command  *)
(* processes run beside it that share only the configuration file with it. *)
(* config is here the session's configuration object.                      *)

ProgramInit == SessionInit

\* visionfi results <uuid>, run in its own process
ProgramResults ==
  \E uuid \in {"job-a"}, wait \in {"true"}, env \in ResultsEnvs :
    LET options == Options(wait, OptAbsent, OptAbsent)
        o == getResultsCore(uuid, options, disk, disk, env)
    IN /\ disk' = o.disk
       /\ last' = LastCall("results", [uuid |-> uuid, options |-> options], disk, o,
                           NoResponse)
       /\ UNCHANGED <<config, client, cachedWorkflows, workflowsCachedAt,
                      workflowCacheTtl, now>>

\* visionfi analyze <file> --workflow <key>, run in its own process
ProgramAnalyze ==
  \E filePath \in FilePaths, workflow \in WorkflowKeys \ {""}, env \in AnalyzeEnvs :
    LET o == analyzeDocumentCore(filePath, [workflow |-> workflow], disk, disk, env)
    IN /\ disk' = o.disk
       /\ last' = LastCall("analyze", [filePath |-> filePath, workflow |-> workflow],
                           disk, o, NoResponse)
       /\ UNCHANGED <<config, client, cachedWorkflows, workflowsCachedAt,
                      workflowCacheTtl, now>>

\* visionfi auth verify, run in its own process
ProgramAuthVerify ==
  \E env \in AuthEnvs :
    LET o == authenticateWithApi(disk, disk, env)
    IN /\ disk' = o.disk
       /\ last' = LastCall("auth", NoResponse, disk, o, NoResponse)
       /\ UNCHANGED <<config, client, cachedWorkflows, workflowsCachedAt,
                      workflowCacheTtl, now>>

ProgramNext ==
  \/ ProgramResults
  \/ ProgramAnalyze
  \/ ProgramAuthVerify
  \/ InitializeClient
  \/ GetCachedWorkflows
  \/ SessionGetResults
  \/ SessionAnalyze
  \/ VerifyAuthentication
  \/ GetClientInfo

ProgramSpec == ProgramInit /\ [][ProgramNext]_vars

-----------------------------------------------------------------------------
(* Account & Configuration menu, "Set Workflow Cache Time": the text the   *)
(* user typed at the prompt is parsed and, when accepted, becomes the TTL. *)

MaxTtlLen == 3

TtlAlphabet == {"0", "1", "6", "9", "-", "s", "m", "h", "H", "x", " "}

\* What the user may type at the "New cache time:" prompt.
TtlInputs == UNION {[1..n -> TtlAlphabet] : n \in 0..MaxTtlLen}

\* The session is at the prompt and the user has typed the text.
TtlInit ==
  /\ disk \in [service_account_path : {"/keys/sa.json"}, recent_uuids : {<<>>},
               workflow_cache_ttl : {DefaultCacheTtl}]
  /\ config = disk
  /\ client = Null
  /\ cachedWorkflows = NullWorkflows
  /\ workflowsCachedAt = 0
  /\ workflowCacheTtl = config.workflow_cache_ttl
  /\ now = ClockStep
  /\ \E text \in TtlInputs :
       last = [NoCall EXCEPT !.op = "prompt", !.input = [ttl |-> text]]

\* showConfigMenu: parseWorkflowCacheTtlCore(newTtlInput.ttl.trim().toLowerCase()),
\* then setWorkflowCacheTtl(seconds) when the text was accepted.
SetWorkflowCacheTime ==
  /\ last.op = "prompt"
  /\ LET newTtlStr == ToLowerCase(Trim(last.input.ttl))
         parseResult == parseWorkflowCacheTtlCore(newTtlStr)
         setResult == parseWorkflowCacheTtlCore(NatToString(parseResult.payload.seconds))
         cfg2 == [config EXCEPT !.workflow_cache_ttl = setResult.payload.seconds]
     IN /\ last' = [last EXCEPT !.op = "setWorkflowCacheTime", !.result = parseResult,
                                !.before = Before]
        /\ IF parseResult.success /\ setResult.success
             THEN /\ workflowCacheTtl' = setResult.payload.seconds
                  /\ config' = cfg2
                  /\ disk' = cfg2
             ELSE UNCHANGED <<workflowCacheTtl, config, disk>>
  /\ UNCHANGED <<client, cachedWorkflows, workflowsCachedAt, now>>

TtlNext == SetWorkflowCacheTime

TtlSpec == TtlInit /\ [][TtlNext]_vars

-----------------------------------------------------------------------------
(* The main menu loop of the session: one action is one iteration of       *)
(* runMainMenu, from the authentication check that precedes the menu to    *)
(* the return of the handler of the user's choice.                         *)

\* What verifyAuth does when the loop checks the authentication status.
MenuAuthEnvs == {EnvOk, [EnvOk EXCEPT !.auth = "false"], [EnvOk EXCEPT !.auth = "throw"]}

\* if (this.client) { authResult = await verifyAuthenticationCore(this.client) }
MainMenuAuth(env) ==
  IF client = Null THEN <<>> ELSE <<verifyAuthenticationCore(client, env)>>

RECURSIVE StepsTrace(_)
\* The steps of the core calls of one iteration, in order.
StepsTrace(steps) ==
  IF steps = <<>> THEN <<>> ELSE Head(steps).trace \o StepsTrace(Tail(steps))

\* A record of one iteration: the choice, the core calls made (steps) with
\* what each returned, and how the handler ended.
MenuCall(choice, input, steps, returned) ==
  [op |-> "mainMenu", input |-> [choice |-> choice] @@ input, before |-> Before,
   trace |-> StepsTrace(steps),
   result |-> IF steps = <<>> THEN NoCall.result ELSE steps[Len(steps)].result,
   resp |-> IF steps = <<>> THEN NoResponse ELSE steps[Len(steps)].resp,
   returned |-> returned, steps |-> steps]

\* Choice '1': showDocumentAnalysisMenu, the user going back at its prompt.
MenuDocumentAnalysis ==
  /\ Running
  /\ \E envA \in MenuAuthEnvs, d \in Durations,
        \* getWorkflows resolves to a list or to a non-success response, or throws
        env1, env2 \in
          {EnvOk,
           [EnvOk EXCEPT !.workflows = [throws |-> FALSE,
                                        response |-> [kind |-> "response",
                                                      success |-> FALSE, data |-> <<>>]]],
           [EnvOk EXCEPT !.workflows = WorkflowThrows, !.err = "ECONNRESET"]} :
       LET auth == MainMenuAuth(envA)
           c1 == CachedWorkflowsCall(cachedWorkflows, workflowsCachedAt, now, env1)
           now1 == IF c1.o.trace # <<>> THEN now + d ELSE now
           c2 == CachedWorkflowsCall(c1.cachedWorkflows, c1.workflowsCachedAt, now1, env2)
       IN IF client = Null
            THEN /\ d = 0
                 /\ last' = MenuCall("1", [now |-> now], auth, MenuReturns)
                 /\ UNCHANGED <<cachedWorkflows, workflowsCachedAt, now>>
            ELSE /\ (c1.o.trace = <<>> => d = 0)
                 /\ cachedWorkflows' = c2.cachedWorkflows
                 /\ workflowsCachedAt' = c2.workflowsCachedAt
                 /\ now' = now1
                 /\ last' = MenuCall("1", [now |-> now], auth \o <<c1.o, c2.o>>,
                                     IF DisplayThrows(c2.returned)
                                       THEN MenuThrows ELSE MenuReturns)
  /\ UNCHANGED <<config, disk, client, workflowCacheTtl>>

\* Choice '2': showResultsMenu; the user enters a job id or goes back ("").
MenuRetrieveResults ==
  /\ Running
  /\ \E envA \in MenuAuthEnvs, uuid \in Uuids \cup {""},
        env \in {EnvOk,
                 [EnvOk EXCEPT !.results = [throws |-> FALSE, status |-> "processed",
                                            results |-> "results-1", error |-> Null]],
                 [EnvOk EXCEPT !.results = ResultsThrows, !.err = "ECONNRESET"]} :
       LET auth == MainMenuAuth(envA)
           o == getResultsCoreInteractive(client, uuid, env)
       IN last' = MenuCall("2", [uuid |-> uuid],
                           IF client = Null \/ uuid = "" THEN auth ELSE auth \o <<o>>,
                           MenuReturns)
  /\ UNCHANGED <<config, disk, client, cachedWorkflows, workflowsCachedAt,
                 workflowCacheTtl, now>>

MenuNext ==
  \/ Tick
  \/ InitializeClient
  \/ MenuDocumentAnalysis
  \/ MenuRetrieveResults

MenuSpec == SessionInit /\ [][MenuNext]_vars

-----------------------------------------------------------------------------
(* Start of the interactive session: new VisionFiCLI() followed at once by *)
(* cli.interactiveMode().  An async function runs until its first await;   *)
(* what follows the await is queued and runs only after the code that is   *)
(* running has itself reached an await.  The queue is last.pending.        *)

\* path.join(DEFAULT_KEY_DIR, SERVICE_ACCOUNT_KEY_NAME)
DefaultKeyPath == "~/.visionfi/keys/visionfi_service_account.json"
CustomKeyPath == "/keys/custom.json"

\* A position in the start-up code, with the continuations waiting to run.
StartCall(op, before, trace, pending, setupEntered) ==
  [NoCall EXCEPT !.op = op, !.before = before, !.trace = trace]
    @@ [pending |-> pending, setupEntered |-> setupEntered]

StartInit ==
  /\ disk \in Configs(Ttls \cup {DefaultCacheTtl})
  /\ config = Null
  /\ client = Null
  /\ cachedWorkflows = NullWorkflows
  /\ workflowsCachedAt = 0
  /\ workflowCacheTtl = DefaultCacheTtl
  /\ now = ClockStep
  /\ last = NoCall

\* new VisionFiCLI(): the configuration is loaded, and initializeClient() is
\* called without await: it runs up to its await of initializeClientCore,
\* which has built the client; the assignment to this.client is queued.
Construct ==
  /\ last.op = "none"
  /\ \E env \in FactoryEnvs :
       LET pending == IF disk.service_account_path # ""
                        THEN <<initializeClientCore(disk.service_account_path, env)>>
                        ELSE <<>>
       IN last' = StartCall("constructor", [config |-> disk], StepsTrace(pending),
                            pending, FALSE)
  /\ config' = disk
  /\ workflowCacheTtl' = disk.workflow_cache_ttl
  /\ UNCHANGED <<disk, client, cachedWorkflows, workflowsCachedAt, now>>

\* interactiveMode() up to its first await: `if (!this.client)` is tested
\* and handleServiceAccountSetup looks for the default key file.
EnterInteractiveMode ==
  /\ last.op = "constructor"
  /\ \E defaultKeyExists \in BOOLEAN, env \in FactoryEnvs :
       LET init == initializeClientCore(DefaultKeyPath, env)
       IN last' =
            IF client # Null
              THEN StartCall("runMainMenu", last.before, last.trace, last.pending, FALSE)
            ELSE IF defaultKeyExists
              THEN StartCall("setupWithExistingDefaultAccount", last.before,
                             last.trace \o init.trace, last.pending \o <<init>>, TRUE)
            ELSE StartCall("guideThroughServiceAccountSetup", last.before, last.trace,
                           last.pending, TRUE)
  /\ UNCHANGED <<config, disk, client, cachedWorkflows, workflowsCachedAt,
                 workflowCacheTtl, now>>

\* The queued continuations run in order, first that of the constructor's
\* initializeClient, then the rest of the set-up flow up to the main menu.
ResumeStartup ==
  /\ last.op \in {"runMainMenu", "setupWithExistingDefaultAccount",
                  "guideThroughServiceAccountSetup"}
  /\ \E env \in MenuAuthEnvs \cup {[EnvOk EXCEPT !.save = "throw", !.err = e] : e \in Errors},
        answer \in {"custom path", "no path", "file not added"} :
       LET configured == last.before.config.service_account_path # ""
           \* the continuation of initializeClient after `await initializeClientCore`:
           \* if (result.success) this.client = result.data.client
           client1 == IF configured /\ last.pending # <<>> /\ last.pending[1].result.success
                        THEN last.pending[1].result.payload.client ELSE client
           init == last.pending[Len(last.pending)]
           custom == initializeClientCore(CustomKeyPath, env)
           cfgDefault == [config EXCEPT !.service_account_path = DefaultKeyPath]
           cfgCustom == [config EXCEPT !.service_account_path = CustomKeyPath]
           done(trace) == StartCall("startupDone", last.before, last.trace \o trace, <<>>,
                                    last.setupEntered)
       IN CASE last.op = "runMainMenu" ->
                 /\ client' = client1
                 /\ last' = done(<<>>)
                 /\ UNCHANGED <<config, disk>>
            [] last.op = "setupWithExistingDefaultAccount" /\ init.result.success ->
                 /\ client' = init.result.payload.client
                 /\ config' = cfgDefault
                 /\ disk' = IF env.save = "throw" THEN disk ELSE cfgDefault
                 /\ last' = done(<<CallSave(cfgDefault, env.save)>>
                                   \o (IF env.save = "throw" THEN <<>>
                                       ELSE <<CallVerifyAuth(env.auth)>>))
            [] last.op = "setupWithExistingDefaultAccount" /\ ~init.result.success ->
                 /\ client' = client1
                 /\ last' = done(<<>>)
                 /\ UNCHANGED <<config, disk>>
            [] last.op = "guideThroughServiceAccountSetup"
                 /\ answer = "custom path" /\ env.save # "throw" ->
                 /\ client' = custom.result.payload.client
                 /\ config' = cfgCustom
                 /\ disk' = cfgCustom
                 /\ last' = done(<<Call("existsSync", <<CustomKeyPath>>, "true")>>
                                   \o custom.trace \o <<CallSave(cfgCustom, env.save)>>)
            [] OTHER ->
                 /\ client' = client1
                 /\ last' = done(<<>>)
                 /\ UNCHANGED <<config, disk>>
  /\ UNCHANGED <<cachedWorkflows, workflowsCachedAt, workflowCacheTtl, now>>

StartNext ==
  \/ Construct
  \/ EnterInteractiveMode
  \/ ResumeStartup

StartSpec == StartInit /\ [][StartNext]_vars

-----------------------------------------------------------------------------
(* utils/config: loadConfig over the configuration file.  In this          *)
(* specification disk is the file itself: missing, text that is not JSON,  *)
(* JSON that is not an object, or an object holding some of the keys.      *)

ConfigKeys == {"service_account_path", "api_endpoint", "recent_uuids", "debug_mode",
               "test_mode", "workflow_cache_ttl"}

DEFAULT_CONFIG ==
  [service_account_path |-> "", api_endpoint |-> "https://platform.visionfi.ai/api/v1",
   recent_uuids |-> <<>>, debug_mode |-> FALSE, test_mode |-> FALSE,
   workflow_cache_ttl |-> DefaultCacheTtl]

FileMissing == [kind |-> "missing"]
FileInvalidJson == [kind |-> "invalid"]
\* JSON.parse succeeds with null, a number or a string: `key in config` throws
FileNotAnObject == [kind |-> "scalar"]
FileObject(json) == [kind |-> "object", json |-> json]

\* The files loadConfig may find: none, one that is not JSON, one that is not
\* an object, and objects holding any subset of the keys with values of their
\* own (the cache TTL in two variants, one of them the false value 0).
ConfigFiles ==
  LET stored(ttl) ==
        [service_account_path |-> "/keys/sa.json",
         api_endpoint |-> "https://custom.endpoint.com",
         recent_uuids |-> <<"job-a">>, debug_mode |-> TRUE, test_mode |-> TRUE,
         workflow_cache_ttl |-> ttl]
  IN {FileMissing, FileInvalidJson, FileNotAnObject}
       \cup {FileObject([k \in K |-> stored(ttl)[k]]) :
               K \in SUBSET ConfigKeys, ttl \in {0, 300}}

\* Mutant: every key is set to its default value.
EnsureAllKeysOverwrite(json) == DEFAULT_CONFIG

\* for (const [key, value] of Object.entries(DEFAULT_CONFIG))
\*   if (!(key in config)) config[key] = value;
EnsureAllKeys(json) ==
  [k \in ConfigKeys \cup DOMAIN json |->
     IF k \in DOMAIN json THEN json[k] ELSE DEFAULT_CONFIG[k]]

LoadReturned(cfg) == [kind |-> "config", config |-> cfg]
LoadThrows == [kind |-> "throw"]

\* loadConfig(): what it returns (or that it threw), its steps, and the file
\* afterwards.
loadConfig(file, env) ==
  IF file = FileMissing
    THEN [returned |-> IF env.save = "throw" THEN LoadThrows ELSE LoadReturned(DEFAULT_CONFIG),
          trace |-> <<Call("saveConfig", <<DEFAULT_CONFIG>>, env.save)>>,
          file |-> IF env.save = "throw" THEN file ELSE FileObject(DEFAULT_CONFIG)]
  ELSE IF env.read = "throw" \/ file.kind \in {"invalid", "scalar"}
    THEN [returned |-> LoadReturned(DEFAULT_CONFIG),
          trace |-> <<Call("readFileSync", <<>>, env.read)>>,
          file |-> file]
  ELSE [returned |-> LoadReturned(EnsureAllKeys(file.json)),
        trace |-> <<Call("readFileSync", <<>>, env.read)>>,
        file |-> file]

LoadInit ==
  /\ disk \in ConfigFiles
  /\ config = Null
  /\ client = Null
  /\ cachedWorkflows = NullWorkflows
  /\ workflowsCachedAt = 0
  /\ workflowCacheTtl = DefaultCacheTtl
  /\ now = ClockStep
  /\ last = NoCall

\* A process starts and calls loadConfig().
LoadConfig ==
  /\ \E env \in {EnvOk} \cup {[EnvOk EXCEPT !.save = "throw", !.err = e] : e \in Errors}
                        \cup {[EnvOk EXCEPT !.read = "throw", !.err = e] : e \in Errors} :
       LET o == loadConfig(disk, env)
       IN /\ disk' = o.file
          /\ config' = IF o.returned = LoadThrows THEN Null ELSE o.returned.config
          /\ last' = [NoCall EXCEPT !.op = "loadConfig", !.before = disk,
                                    !.trace = o.trace, !.returned = o.returned]
  /\ UNCHANGED sessionVars

LoadNext == LoadConfig

LoadSpec == LoadInit /\ [][LoadNext]_vars

-----------------------------------------------------------------------------
(* The session's operations that change the configuration: the Account &   *)
(* Configuration menu, the Developer Tools toggles and document            *)
(* submission.  config holds all six keys; disk is the file as last        *)
(* written.                                                                *)

\* updateConfigCore(config, key, value)
updateConfigCore(cfg, dsk, key, value, env) ==
  LET updatedConfig == [cfg EXCEPT ![key] = value]
  IN IF env.save = "throw"
       THEN Outcome(FailErr("Failed to update configuration: ", env.err),
                    <<CallSave(updatedConfig, env.save)>>, NoResponse, cfg, dsk)
       ELSE Outcome(Result(TRUE, MsgErr("Configuration updated: ", key), 0, NoError,
                           [kind |-> "config", key |-> key, value |-> value,
                            config |-> updatedConfig]),
                    <<CallSave(updatedConfig, env.save)>>, NoResponse, cfg, updatedConfig)

\* The promise of a core function was rejected instead of resolved.
Rejected == [kind |-> "rejected"]

\* setupServiceAccountWithPathCore(path, config); a throwing saveConfig is not
\* caught there: the promise is rejected.
setupServiceAccountWithPathCore(serviceAccountPath, cfg, dsk, env) ==
  LET exists == Call("existsSync", <<serviceAccountPath>>,
                     IF env.fileExists THEN "true" ELSE "false")
      init == initializeClientCore(serviceAccountPath, env)
      updatedConfig == [cfg EXCEPT !.service_account_path = serviceAccountPath]
      t == <<exists>> \o init.trace \o <<CallSave(updatedConfig, env.save)>>
  IN IF ~env.fileExists
       THEN Outcome(Result(FALSE, MsgErr("File not found: ", serviceAccountPath), 1,
                           NoError, NoPayload),
                    <<exists>>, NoResponse, cfg, dsk)
     ELSE IF ~init.result.success
       THEN Outcome(init.result, <<exists>> \o init.trace, NoResponse, cfg, dsk)
     ELSE IF env.save = "throw"
       THEN Outcome(Rejected, t, NoResponse, cfg, dsk)
     ELSE Outcome(Result(TRUE, Msg("Service account configured successfully"), 0, NoError,
                         [kind |-> "setup", client |-> init.result.payload.client,
                          config |-> updatedConfig]),
                  t, NoResponse, cfg, updatedConfig)

\* Mutant: the configuration handed back by the core function is dropped.
ConfigAfterUpdateKeepsOld(result, cfg) == cfg

\* if (result.success) this.config = result.data?.config || this.config
ConfigAfterUpdate(result, cfg) ==
  IF result.success THEN result.payload.config ELSE cfg

ConfigEnvs ==
  {EnvOk, [EnvOk EXCEPT !.fileExists = FALSE],
   [EnvOk EXCEPT !.factory = "throw", !.err = "API error"],
   [EnvOk EXCEPT !.save = "throw", !.err = "ECONNRESET"]}

ConfigInit ==
  /\ disk \in {[DEFAULT_CONFIG EXCEPT !.service_account_path = "/keys/sa.json",
                                      !.debug_mode = d] : d \in BOOLEAN}
  /\ config = disk
  /\ client = "client"
  /\ cachedWorkflows = NullWorkflows
  /\ workflowsCachedAt = 0
  /\ workflowCacheTtl = config.workflow_cache_ttl
  /\ now = ClockStep
  /\ last = NoCall

\* A configuration operation that goes through updateConfigCore.
UpdateConfig(op, key, value, env) ==
  LET o == updateConfigCore(config, disk, key, value, env)
  IN /\ Running
     /\ config' = ConfigAfterUpdate(o.result, config)
     /\ disk' = o.disk
     /\ last' = LastCall(op, [key |-> key], Before, o, MenuReturns)

\* showConfigMenu '4': the endpoint is updated and the client built again.
SetApiEndpoint ==
  /\ \E endpoint \in {DEFAULT_CONFIG.api_endpoint, "https://custom.endpoint.com"}, env \in ConfigEnvs :
       LET init == initializeClientCore(config.service_account_path, env)
           reinit == /\ env.save # "throw"
                     /\ client # Null
                     /\ config.service_account_path # ""
       IN /\ UpdateConfig("setApiEndpoint", "api_endpoint", endpoint, env)
          /\ client' = IF reinit /\ init.result.success
                         THEN init.result.payload.client ELSE client
  /\ UNCHANGED <<cachedWorkflows, workflowsCachedAt, workflowCacheTtl, now>>

\* showConfigMenu '7', confirmed with 'y'
ClearRecentUuids ==
  /\ \E env \in ConfigEnvs : UpdateConfig("clearRecentUuids", "recent_uuids", <<>>, env)
  /\ UNCHANGED sessionVars

\* showDeveloperMenu '2'
ToggleDebugMode ==
  /\ \E env \in ConfigEnvs :
       UpdateConfig("toggleDebugMode", "debug_mode", ~config.debug_mode, env)
  /\ UNCHANGED sessionVars

\* showDeveloperMenu '3'
ToggleTestMode ==
  /\ \E env \in ConfigEnvs :
       UpdateConfig("toggleTestMode", "test_mode", ~config.test_mode, env)
  /\ UNCHANGED sessionVars

\* showConfigMenu '9' with an accepted text: setWorkflowCacheTtl(seconds)
\* changes this.config in place and calls this.saveConfig(), whose exception
\* nothing catches.
ConfigSetCacheTime ==
  /\ Running
  /\ \E seconds \in {1, DefaultCacheTtl}, env \in ConfigEnvs :
       LET parseResult == parseWorkflowCacheTtlCore(NatToString(seconds))
           cfg2 == [config EXCEPT !.workflow_cache_ttl = parseResult.payload.seconds]
       IN /\ workflowCacheTtl' = parseResult.payload.seconds
          /\ config' = cfg2
          /\ disk' = IF env.save = "throw" THEN disk ELSE cfg2
          /\ last' = [op |-> "setWorkflowCacheTime", input |-> [seconds |-> seconds],
                      before |-> Before, trace |-> <<CallSave(cfg2, env.save)>>,
                      result |-> parseResult, resp |-> NoResponse,
                      returned |-> IF env.save = "throw" THEN MenuThrows ELSE MenuReturns]
  /\ UNCHANGED <<client, cachedWorkflows, workflowsCachedAt, now>>

\* showConfigMenu '1': setupServiceAccountWithPathCore with the path typed.
SetServiceAccountPath ==
  /\ Running
  /\ \E env \in ConfigEnvs :
       LET o == setupServiceAccountWithPathCore(CustomKeyPath, config, disk, env)
           threw == o.result = Rejected
           ok == ~threw /\ o.result.success
       IN /\ client' = IF ok THEN o.result.payload.client ELSE client
          /\ config' = IF ok THEN o.result.payload.config ELSE config
          /\ disk' = o.disk
          /\ last' = [op |-> "setServiceAccountPath",
                      input |-> [serviceAccountPath |-> CustomKeyPath],
                      before |-> Before, trace |-> o.trace,
                      result |-> IF threw THEN NoCall.result ELSE o.result,
                      resp |-> NoResponse,
                      returned |-> IF threw THEN MenuThrows ELSE MenuReturns]
  /\ UNCHANGED <<cachedWorkflows, workflowsCachedAt, workflowCacheTtl, now>>

\* showConfigMenu '2': the default key is used; this.config is changed in
\* place and this.saveConfig() called, whose exception nothing catches.
UseDefaultServiceAccount ==
  /\ Running
  /\ \E env \in ConfigEnvs :
       LET init == initializeClientCore(DefaultKeyPath, env)
           cfg2 == [config EXCEPT !.service_account_path = DefaultKeyPath]
           ok == init.result.success
       IN /\ client' = IF ok THEN init.result.payload.client ELSE client
          /\ config' = IF ok THEN cfg2 ELSE config
          /\ disk' = IF ok /\ env.save # "throw" THEN cfg2 ELSE disk
          /\ last' = [op |-> "useDefaultServiceAccount", input |-> NoResponse,
                      before |-> Before,
                      trace |-> init.trace
                                  \o (IF ok THEN <<CallSave(cfg2, env.save)>> ELSE <<>>),
                      result |-> init.result, resp |-> NoResponse,
                      returned |-> IF ok /\ env.save = "throw"
                                     THEN MenuThrows ELSE MenuReturns]
  /\ UNCHANGED <<cachedWorkflows, workflowsCachedAt, workflowCacheTtl, now>>

\* setupWithExistingDefaultAccount, run by interactiveMode before the first
\* main menu: this.config is changed in place and this.saveConfig() called
\* inside a try whose catch prints the error.
SetupWithExistingDefaultAccount ==
  /\ last.op = "none"
  /\ \E env \in ConfigEnvs :
       LET init == initializeClientCore(DefaultKeyPath, env)
           cfg2 == [config EXCEPT !.service_account_path = DefaultKeyPath]
           ok == init.result.success
       IN /\ client' = IF ok THEN init.result.payload.client ELSE client
          /\ config' = IF ok THEN cfg2 ELSE config
          /\ disk' = IF ok /\ env.save # "throw" THEN cfg2 ELSE disk
          /\ last' = [op |-> "setupWithExistingDefaultAccount", input |-> NoResponse,
                      before |-> Before,
                      trace |-> init.trace
                                  \o (IF ok THEN <<CallSave(cfg2, env.save)>> ELSE <<>>),
                      result |-> init.result, resp |-> NoResponse,
                      returned |-> MenuReturns]
  /\ UNCHANGED <<cachedWorkflows, workflowsCachedAt, workflowCacheTtl, now>>

ConfigNext ==
  \/ SetupWithExistingDefaultAccount
  \/ SetApiEndpoint
  \/ ClearRecentUuids
  \/ ToggleDebugMode
  \/ ToggleTestMode
  \/ ConfigSetCacheTime
  \/ SetServiceAccountPath
  \/ UseDefaultServiceAccount
  \/ SessionAnalyze

ConfigSpec == ConfigInit /\ [][ConfigNext]_vars

-----------------------------------------------------------------------------
(* Properties.                                                             *)

HasCall(trace, fn) == \E i \in 1..Len(trace) : trace[i].fn = fn
HasCallRet(trace, fn, ret) ==
  \E i \in 1..Len(trace) : trace[i].fn = fn /\ trace[i].ret = ret

\* C1: in the results command, once the service account is configured,
\* verifyAuth reported true and the job id is non-empty, the response of
\* getResults maps to exactly one of three outcomes: results populated =>
\* success, exit 0, "Results retrieved successfully!"; results absent and
\* error populated => failure, exit 1, "Analysis error occurred during
\* processing."; neither => success, exit 0, "No results available yet...".
\* With both populated the results outcome wins.
C1_ResultsOutcomeMapping ==
  (/\ last.op = "results"
   /\ last.before.service_account_path # ""
   /\ HasCallRet(last.trace, "verifyAuth", "true")
   /\ last.input.uuid # ""
   /\ HasCallRet(last.trace, "getResults", "ok"))
  => LET r == last.resp
         res == last.result
     IN /\ r.results # Null =>
             /\ res.success = TRUE
             /\ res.exitCode = 0
             /\ res.message = Msg("Results retrieved successfully!")
        /\ (r.results = Null /\ r.error # Null) =>
             /\ res.success = FALSE
             /\ res.exitCode = 1
             /\ res.message = Msg("Analysis error occurred during processing.")
        /\ (r.results = Null /\ r.error = Null) =>
             /\ res.success = TRUE
             /\ res.exitCode = 0
             /\ res.message =
                  Msg("No results available yet. The job may still be processing.")

\* A response with both results and error populated was mapped to success.
C1_Witness ==
  /\ last.op = "results"
  /\ HasCallRet(last.trace, "getResults", "ok")
  /\ last.resp.results # Null
  /\ last.resp.error # Null
  /\ last.result.success
  /\ last.result.exitCode = 0

\* C2: every result record returned by a core operation has exitCode = 0 if
\* and only if its success flag is true, the "no results yet" outcome of the
\* interactive results retrieval included.
C2_ExitCodeIffSuccess ==
  (last.result.exitCode = 0) <=> (last.result.success = TRUE)

\* C3: when the wait option is false or absent, the results command calls
\* getResults exactly once, with (jobId, 0, 1), whatever pollInterval and
\* maxAttempts are; it makes no such call only when it fails before the
\* retrieval (no service account, client or authentication failure, empty
\* id, saveConfig throwing).
C3_NoWaitSingleImmediateCheck ==
  (last.op = "results" /\ last.input.options.wait \in {"absent", "false"})
  => LET calls == CallsOf(last.trace, "getResults")
         early == \/ last.before.service_account_path = ""
                  \/ ~HasCallRet(last.trace, "verifyAuth", "true")
                  \/ last.input.uuid = ""
                  \/ HasCallRet(last.trace, "saveConfig", "throw")
     IN IF early
          THEN calls = <<>>
          ELSE /\ Len(calls) = 1
               /\ calls[1].args = <<last.input.uuid, 0, 1>>

\* Without --wait, supplied poll options were not passed on.
C3_Witness ==
  /\ last.op = "results"
  /\ last.input.options.wait = "false"
  /\ last.input.options.pollInterval = OptNumber(500)
  /\ last.input.options.maxAttempts = OptNumber(2)
  /\ Len(CallsOf(last.trace, "getResults")) = 1
  /\ CallsOf(last.trace, "getResults")[1].args = <<last.input.uuid, 0, 1>>

\* C4: when the wait option is true, the results command calls getResults
\* with exactly the supplied poll interval and maximum attempt count, for
\* every pollIntervalMs >= 0 and maxAttempts >= 1, given as numbers or as
\* numeric strings; the defaults 3000 and 10 are used only for an option
\* that is not supplied.
C4_WaitPassesSuppliedOptions ==
  (/\ last.op = "results"
   /\ last.input.options.wait = "true"
   /\ HasCall(last.trace, "getResults"))
  => LET supplied(o, d) ==
           IF o.kind = "absent" THEN d
           ELSE IF o.kind = "number" THEN o.n
           ELSE ParseInt(o.s).n
     IN CallsOf(last.trace, "getResults")[1].args =
          <<last.input.uuid,
            supplied(last.input.options.pollInterval, 3000),
            supplied(last.input.options.maxAttempts, 10)>>

\* C5: the results command called with an empty job id, a configured service
\* account and verifyAuth reporting true returns failure, exit 1, "No job
\* UUID specified.", after having invoked verifyAuth; it calls neither
\* getResults nor saveConfig and leaves recent_uuids as it was.
C5_EmptyJobId ==
  (/\ last.op = "results"
   /\ last.input.uuid = ""
   /\ last.before.service_account_path # ""
   /\ HasCallRet(last.trace, "verifyAuth", "true"))
  => /\ last.result = Fail("No job UUID specified.")
     /\ last.result.exitCode = 1
     /\ ~HasCall(last.trace, "getResults")
     /\ ~HasCall(last.trace, "saveConfig")
     /\ config.recent_uuids = last.before.recent_uuids
     /\ disk = last.before
     /\ last.trace[Len(last.trace)].fn = "verifyAuth"

\* An empty job id was refused after authentication succeeded.
C5_Witness ==
  /\ last.op = "results"
  /\ last.input.uuid = ""
  /\ HasCallRet(last.trace, "verifyAuth", "true")
  /\ last.result.message = Msg("No job UUID specified.")

\* C6: in the results and analyze commands, when verifyAuth reports a false
\* value the core function returns failure, exit 1, "Authentication
\* failed.", and verifyAuth is the last call made on the client: no
\* getResults or analyzeDocument follows.
C6_AuthFailureShortCircuit ==
  (/\ last.op \in {"results", "analyze", "analyzeDocument"}
   /\ HasCallRet(last.trace, "verifyAuth", "false"))
  => /\ last.result = Fail("Authentication failed.")
     /\ last.result.exitCode = 1
     /\ ~HasCall(last.trace, "getResults")
     /\ ~HasCall(last.trace, "analyzeDocument")
     /\ last.trace[Len(last.trace)].fn = "verifyAuth"

\* Authentication was refused for a results retrieval of a non-empty id.
C6_Witness ==
  /\ last.op = "results"
  /\ last.input.uuid # ""
  /\ last.input.options.wait = "true"
  /\ HasCallRet(last.trace, "verifyAuth", "false")
  /\ last.result.success = FALSE

\* C7: with a non-null client, getWorkflowsCore invokes getWorkflows if and
\* only if forceRefresh is true, or the cached entry is null, or
\* now - cachedAt > ttlSeconds * 1000; otherwise it makes no remote call and
\* returns success with the given entry, the given cachedAt and
\* fromCache = true.  fromCache is true only on that path.
C7_FetchDecision ==
  (last.op = "getCachedWorkflows" /\ client # Null)
  => LET b == last.before
         fetch == \/ last.input.forceRefresh
                  \/ b.cachedWorkflows = NullWorkflows
                  \/ last.input.now - b.workflowsCachedAt > b.workflowCacheTtl * 1000
         res == last.result
     IN /\ HasCall(last.trace, "getWorkflows") <=> fetch
        /\ ~fetch =>
             /\ last.trace = <<>>
             /\ res.success = TRUE
             /\ res.exitCode = 0
             /\ res.payload.workflows = b.cachedWorkflows
             /\ res.payload.cachedAt = b.workflowsCachedAt
             /\ res.payload.fromCache = TRUE
        /\ (res.payload.kind = "workflows" /\ res.payload.fromCache) => ~fetch

\* An entry exactly ttl seconds old was served from the cache.
C7_Witness ==
  /\ last.op = "getCachedWorkflows"
  /\ client # Null
  /\ ~last.input.forceRefresh
  /\ last.before.workflowCacheTtl = 1
  /\ last.input.now - last.before.workflowsCachedAt = 1000
  /\ last.result.payload.kind = "workflows"
  /\ last.result.payload.fromCache
  /\ last.trace = <<>>

\* C8: a force-refresh request on an initialized client invokes getWorkflows
\* however fresh the cached entry is, and when that fetch succeeds the
\* session's cached entry is the fetched response and its timestamp the
\* clock value the call read.
C8_ForceRefresh ==
  (last.op = "getCachedWorkflows" /\ client # Null /\ last.input.forceRefresh)
  => /\ Len(CallsOf(last.trace, "getWorkflows")) = 1
     /\ (last.resp # NoResponse /\ last.resp.success) =>
          /\ cachedWorkflows = last.resp
          /\ workflowsCachedAt = last.input.now
          /\ last.returned = last.resp

\* A forced refresh replaced an entry that was still fresh.
C8_Witness ==
  /\ last.op = "getCachedWorkflows"
  /\ last.input.forceRefresh
  /\ last.before.cachedWorkflows # NullWorkflows
  /\ last.input.now - last.before.workflowsCachedAt
       <= last.before.workflowCacheTtl * 1000
  /\ last.resp # NoResponse
  /\ last.resp.success
  /\ cachedWorkflows # last.before.cachedWorkflows
  /\ workflowsCachedAt # last.before.workflowsCachedAt

\* C9: when a workflow fetch fails (getWorkflows throws or resolves to a
\* non-success response), the session's cached entry and its timestamp are
\* as before the call, getWorkflowsCore reports failure with exit 1, and
\* getCachedWorkflows returns the previously cached value.
C9_FetchFailureKeepsCache ==
  (/\ last.op = "getCachedWorkflows"
   /\ \/ HasCallRet(last.trace, "getWorkflows", "throw")
      \/ (last.resp # NoResponse /\ ~last.resp.success))
  => /\ cachedWorkflows = last.before.cachedWorkflows
     /\ workflowsCachedAt = last.before.workflowsCachedAt
     /\ last.result.success = FALSE
     /\ last.result.exitCode = 1
     /\ last.returned = last.before.cachedWorkflows

\* A fetch failed while an entry was cached.
C9_Witness ==
  /\ last.op = "getCachedWorkflows"
  /\ HasCallRet(last.trace, "getWorkflows", "throw")
  /\ last.before.cachedWorkflows # NullWorkflows
  /\ last.returned = last.before.cachedWorkflows

\* C10: with a TTL of 0 seconds every access to the workflow cache on an
\* initialized client invokes getWorkflows, a call made at the clock value
\* of the cached entry's timestamp included.
C10_TtlZeroAlwaysFetches ==
  (/\ last.op = "getCachedWorkflows"
   /\ client # Null
   /\ last.before.workflowCacheTtl = 0)
  => HasCall(last.trace, "getWorkflows")

\* C11: on a successful workflow fetch the session's cache entry is the
\* fetched response as a whole (nothing of the old entry is kept) and its
\* timestamp is the clock value at which the fetch completed, so that the
\* age of the entry never includes the duration of the fetch.
C11_TimestampIsFetchCompletion ==
  (/\ last.op = "getCachedWorkflows"
   /\ HasCallRet(last.trace, "getWorkflows", "ok")
   /\ last.resp # NoResponse
   /\ last.resp.success)
  => /\ cachedWorkflows = last.resp
     /\ workflowsCachedAt = now

\* C12: whenever a job id already present in recent_uuids is recorded
\* again, by a results retrieval (which records after authentication, for a
\* non-empty id) or by a successful document submission, the id afterwards
\* sits at the front of the list and occurs in it exactly once.
C12_RerecordMovesToFront ==
  LET frontOnce(list, uuid) ==
        /\ list # <<>>
        /\ list[1] = uuid
        /\ Cardinality({i \in 1..Len(list) : list[i] = uuid}) = 1
  IN /\ (/\ last.op = "results"
         /\ last.input.uuid # ""
         /\ HasCallRet(last.trace, "verifyAuth", "true")
         /\ Includes(last.before.recent_uuids, last.input.uuid))
        => frontOnce(config.recent_uuids, last.input.uuid)
     /\ (/\ last.op = "analyzeDocument"
         /\ last.result.success
         /\ Includes(last.before.recent_uuids, last.result.payload.uuid))
        => frontOnce(config.recent_uuids, last.result.payload.uuid)

\* C13: starting from a recent_uuids list of at most 10 distinct ids, after
\* any sequence of recordings the list holds at most 10 entries, without
\* duplicates, the most recently recorded id first; and recording an 11th
\* distinct id removes exactly the entry that was last (the oldest): the
\* list becomes the new id followed by the first nine of the old list.
C13_RecentListCappedOrdered ==
  LET list == config.recent_uuids
      byResults == /\ last.op = "results"
                   /\ last.input.uuid # ""
                   /\ HasCallRet(last.trace, "verifyAuth", "true")
      bySubmission == /\ last.op \in {"analyzeDocument", "sessionAnalyze"}
                      /\ last.result.success
      uuid == IF byResults THEN last.input.uuid ELSE last.result.payload.uuid
      old == IF last.op = "sessionAnalyze" THEN last.before.config.recent_uuids
             ELSE last.before.recent_uuids
  IN /\ Len(list) <= 10
     /\ \A i, j \in 1..Len(list) : list[i] = list[j] => i = j
     /\ (byResults \/ bySubmission) =>
          /\ list # <<>>
          /\ list[1] = uuid
          /\ (Len(old) = 10 /\ ~Includes(old, uuid)) =>
               list = <<uuid>> \o SubSeq(old, 1, 9)

\* C14: after any results retrieval made with a non-empty job id, through
\* the results command or through the interactive session, whatever the
\* outcome of authentication or of the remote fetch, the id is contained in
\* the recent-jobs list.
C14_RetrievalRecordsJobId ==
  (last.op \in {"results", "sessionGetResults"} /\ last.input.uuid # "")
  => Includes(config.recent_uuids, last.input.uuid)

\* C15 (as claimed): each precondition failure of the analyze and results
\* commands (missing service account, missing file, empty job id, missing
\* workflow) is reported before any network call: neither verifyAuth,
\* getResults nor analyzeDocument has been invoked.
C15_PreconditionsBeforeAnyNetworkCall ==
  (/\ last.op \in {"results", "analyze", "analyzeDocument"}
   /\ last.result.message.text \in
        {"No service account configured. Run in interactive mode to set up a service account.",
         "File not found: ",
         "No job UUID specified.",
         "No workflow specified. Use --workflow option to specify analysis workflow."})
  => /\ ~HasCall(last.trace, "verifyAuth")
     /\ ~HasCall(last.trace, "getResults")
     /\ ~HasCall(last.trace, "analyzeDocument")

\* C15 (amended): a missing service account and a missing file are reported
\* before the client is built and before any network call; an empty job id
\* and a missing workflow are reported after verifyAuth has returned true
\* and before any further call: getResults and analyzeDocument are never
\* invoked on a precondition failure, and the result is a failure with
\* exit code 1.
C15_PreconditionsBeforeRetrievalOrSubmission ==
  LET commands == {"results", "analyze", "analyzeDocument"}
      submissions == {"analyze", "analyzeDocument"}
      configured == last.before.service_account_path # ""
      authenticated == HasCallRet(last.trace, "verifyAuth", "true")
      failed == ~last.result.success /\ last.result.exitCode = 1
  IN /\ (last.op \in commands /\ ~configured) =>
          /\ last.trace = <<>>
          /\ failed
     /\ (last.op \in submissions /\ HasCallRet(last.trace, "existsSync", "false")) =>
          /\ Len(last.trace) = 1
          /\ failed
          /\ last.result.message.text = "File not found: "
     /\ (last.op = "results" /\ last.input.uuid = "" /\ authenticated) =>
          /\ last.trace[Len(last.trace)].fn = "verifyAuth"
          /\ ~HasCall(last.trace, "getResults")
          /\ last.result = Fail("No job UUID specified.")
     /\ (last.op \in submissions /\ last.input.workflow = "" /\ authenticated) =>
          /\ last.trace[Len(last.trace)].fn = "verifyAuth"
          /\ ~HasCall(last.trace, "analyzeDocument")
          /\ ~HasCall(last.trace, "readFileSync")
          /\ last.result =
               Fail("No workflow specified. Use --workflow option to specify analysis workflow.")

\* The analyze command was refused for a missing workflow after
\* authentication had succeeded.
C15_Witness ==
  /\ last.op = "analyze"
  /\ last.input.workflow = ""
  /\ HasCallRet(last.trace, "verifyAuth", "true")
  /\ last.result.message.text =
       "No workflow specified. Use --workflow option to specify analysis workflow."
  /\ ~HasCall(last.trace, "analyzeDocument")

\* C16: when service_account_path is empty, authenticateWithApi, the analyze
\* command's analyzeDocumentCore and the results command's getResultsCore
\* each return a failure with exit code 1 without invoking the client
\* factory and without any remote call, and nothing is saved.
C16_NoServiceAccount ==
  (/\ last.op \in {"auth", "analyze", "analyzeDocument", "results"}
   /\ last.before.service_account_path = "")
  => /\ last.result.success = FALSE
     /\ last.result.exitCode = 1
     /\ ~HasCall(last.trace, "clientFactory")
     /\ RemoteCalls(last.trace) = <<>>
     /\ last.trace = <<>>
     /\ disk = last.before

\* auth verify was refused for want of a service account.
C16_Witness ==
  /\ last.op = "auth"
  /\ last.before.service_account_path = ""
  /\ last.result.exitCode = 1
  /\ last.result.message =
       Msg("Client not initialized. Please configure a service account first.")

\* C17: whenever a remote call (verifyAuth, getResults, analyzeDocument,
\* getWorkflows, getClientInfo) throws, the core function that issued it
\* returns normally a failure record with exit code 1 whose error field and
\* message carry the thrown error, and the call that threw is the last step
\* of the invocation: no further remote call is issued.
C17_RemoteThrowIsWrapped ==
  \A i \in 1..Len(last.trace) :
    (last.trace[i].fn \in RemoteFns /\ last.trace[i].ret = "throw")
    => /\ i = Len(last.trace)
       /\ last.result.success = FALSE
       /\ last.result.exitCode = 1
       /\ last.result.error \in Errors
       /\ last.result.message.detail = last.result.error

\* getClientInfo threw in the session and the error came back in the record.
C17_Witness ==
  /\ last.op = "getClientInfo"
  /\ HasCallRet(last.trace, "getClientInfo", "throw")
  /\ last.result.error = "ECONNRESET"
  /\ last.result.exitCode = 1

\* C18: in the interactive session a failing workflow fetch never ends the
\* session: when getWorkflows throws or returns a non-success response
\* while no workflows are cached, opening the Document Analysis menu raises
\* no exception and control returns to the main menu loop.
C18_MenuSurvivesFetchFailure ==
  (/\ last.op = "showDocumentAnalysisMenu"
   /\ last.before.cachedWorkflows = NullWorkflows
   /\ \E i \in 1..Len(last.trace) :
        /\ last.trace[i].fn = "getWorkflows"
        /\ \/ last.trace[i].ret = "throw"
           \/ last.result.success = FALSE)
  => /\ last.returned = MenuReturns
     /\ Running

\* C19: parseWorkflowCacheTtlCore, after trimming and lower-casing its
\* input, succeeds if and only if the input is a non-negative integer n
\* (decimal digits only) optionally followed by one suffix s, m or h, and
\* then yields n seconds for s or no suffix, 60*n for m and 3600*n for h;
\* every other input is rejected with exit code 1.
C19_TtlParseAcceptsExactlyWellFormed ==
  last.op = "setWorkflowCacheTime"
  => LET t == ToLowerCase(Trim(last.input.ttl))
         suffixed == t # <<>> /\ t[Len(t)] \in {"s", "m", "h"}
         digits == IF suffixed THEN DropLast(t) ELSE t
         wellFormed == /\ digits # <<>>
                       /\ \A i \in 1..Len(digits) : digits[i] \in Digits
         factor == IF ~suffixed \/ t[Len(t)] = "s" THEN 1
                   ELSE IF t[Len(t)] = "m" THEN 60 ELSE 3600
     IN /\ last.result.success <=> wellFormed
        /\ wellFormed => last.result.payload.seconds = factor * DigitsValue(digits, 0)
        /\ ~wellFormed => last.result.exitCode = 1

\* C20: parseWorkflowCacheTtlCore reports malformed input, such as an input
\* whose numeric part starts with a non-numeric character, as a failure
\* with exit code 1 and the message "Invalid format. Examples: 30s, 10m,
\* 2h", and a negative value as a failure with the other message, "Invalid
\* cache TTL. Must be a positive number.".
C20_MalformedTtlMessage ==
  last.op = "setWorkflowCacheTime"
  => LET t == ToLowerCase(Trim(last.input.ttl))
         suffixed == t # <<>> /\ t[Len(t)] \in {"s", "m", "h"}
         numeric == IF suffixed THEN DropLast(t) ELSE t
         malformed == numeric # <<>> /\ numeric[1] \notin Digits \cup {"-", "+"}
         negative == /\ Len(numeric) >= 2
                     /\ numeric[1] = "-"
                     /\ \A i \in 2..Len(numeric) : numeric[i] \in Digits
                     /\ DigitsValue(Tail(numeric), 0) > 0
     IN /\ malformed => last.result = Fail("Invalid format. Examples: 30s, 10m, 2h")
        /\ negative =>
             last.result = Fail("Invalid cache TTL. Must be a positive number.")

\* C21: formatCacheTtlCore maps a non-negative number of seconds to
\* "{n} seconds" below 60, to "{n} minute(s)" with n = floor(seconds/60)
\* from 60 up to 3599 and to "{n} hour(s)" with n = floor(seconds/3600) from
\* 3600 on, the minute and hour units being plural exactly when n # 1; so
\* the accepted input "10m" is formatted "10 minutes" and 90 seconds
\* "1 minute".
C21_FormatCacheTtl ==
  (last.op = "setWorkflowCacheTime" /\ last.result.success)
  => LET seconds == last.result.payload.seconds
         text == last.result.payload.formattedString
         n == IF seconds < 60 THEN seconds
              ELSE IF seconds < 3600 THEN seconds \div 60 ELSE seconds \div 3600
         unit == IF seconds < 60 THEN "seconds"
                 ELSE IF seconds < 3600 THEN (IF n = 1 THEN "minute" ELSE "minutes")
                 ELSE (IF n = 1 THEN "hour" ELSE "hours")
     IN /\ seconds >= 0
        /\ Len(text) >= 3
        /\ text[Len(text)] = unit
        /\ text[Len(text) - 1] = " "
        /\ ParseInt(SubSeq(text, 1, Len(text) - 2)) = [nan |-> FALSE, n |-> n]
        /\ SubSeq(text, 1, Len(text) - 2) = NatToString(n)
        /\ last.input.ttl = <<"1", "0", "m">> => text = <<"1", "0", " ", "minutes">>
        /\ last.input.ttl = <<"9", "0">> => text = <<"1", " ", "minute">>

\* 90 seconds were formatted as "1 minute".
C21_Witness ==
  /\ last.op = "setWorkflowCacheTime"
  /\ last.input.ttl = <<"9", "0">>
  /\ last.result.success
  /\ last.result.payload.seconds = 90
  /\ last.result.payload.formattedString = <<"1", " ", "minute">>

\* C22: loadConfig returns a configuration that has every key of
\* DEFAULT_CONFIG, a key present in the stored file keeping the file's value
\* and an absent key taking its default; when the file is missing the
\* defaults are handed to saveConfig and, the write having succeeded, are on
\* disk and returned; when the file holds invalid JSON the defaults are
\* returned and the call does not throw.
C22_LoadConfigMergesDefaults ==
  last.op = "loadConfig"
  => LET file == last.before
     IN /\ file.kind = "object" =>
             /\ last.returned.kind = "config"
             /\ LET json == IF HasCallRet(last.trace, "readFileSync", "ok")
                              THEN file.json ELSE <<>>
                    cfg == last.returned.config
                IN /\ ConfigKeys \subseteq DOMAIN cfg
                   /\ \A k \in ConfigKeys :
                        cfg[k] = IF k \in DOMAIN json THEN json[k] ELSE DEFAULT_CONFIG[k]
        /\ file.kind = "missing" =>
             /\ last.trace = <<Call("saveConfig", <<DEFAULT_CONFIG>>, last.trace[1].ret)>>
             /\ last.trace[1].ret = "ok" =>
                  /\ disk = FileObject(DEFAULT_CONFIG)
                  /\ last.returned = LoadReturned(DEFAULT_CONFIG)
        /\ file.kind \in {"invalid", "scalar"} =>
             /\ last.returned = LoadReturned(DEFAULT_CONFIG)
             /\ disk = file

\* A stored file with two of the six keys, one of them holding the false
\* value 0, was loaded: both values are kept, the other keys are defaults.
C22_Witness ==
  /\ last.op = "loadConfig"
  /\ last.before.kind = "object"
  /\ DOMAIN last.before.json = {"debug_mode", "workflow_cache_ttl"}
  /\ last.returned.kind = "config"
  /\ last.returned.config.workflow_cache_ttl = 0
  /\ last.returned.config.debug_mode = TRUE
  /\ last.returned.config.api_endpoint = DEFAULT_CONFIG.api_endpoint

\* C23: every successful document submission that returns a job uuid,
\* through the analyze command (the analyzeDocument wrapper or the command
\* action of cli.ts) or through the interactive session, hands saveConfig a
\* configuration whose recent_uuids has that uuid at the front.
C23_SubmissionRecordsUuid ==
  (/\ last.op \in {"analyze", "analyzeDocument", "sessionAnalyze"}
   /\ last.result.success
   /\ last.result.payload.uuid # "")
  => \E i \in 1..Len(last.trace) :
       /\ last.trace[i].fn = "saveConfig"
       /\ last.trace[i].args[1].recent_uuids # <<>>
       /\ last.trace[i].args[1].recent_uuids[1] = last.result.payload.uuid

\* C24: in the interactive session, when the authentication check of the
\* main menu finds the API not authenticated (verifyAuth returned a false
\* value), choosing Document Analysis or Retrieve Results invokes neither
\* getWorkflows, analyzeDocument nor getResults on the client.
C24_NoDownstreamCallWhenNotAuthenticated ==
  (/\ last.op = "mainMenu"
   /\ last.input.choice \in {"1", "2"}
   /\ HasCallRet(last.trace, "verifyAuth", "false"))
  => /\ ~HasCall(last.trace, "getWorkflows")
     /\ ~HasCall(last.trace, "analyzeDocument")
     /\ ~HasCall(last.trace, "getResults")

\* C25: a failed workflow fetch is not retried automatically: within one
\* entry into the Document Analysis menu, once getWorkflows has thrown or
\* returned a non-success response it is not invoked again before the user
\* is prompted.
C25_FailedFetchNotRetried ==
  (last.op = "mainMenu" /\ last.input.choice = "1")
  => \A i, j \in 1..Len(last.steps) :
       (/\ i < j
        /\ HasCall(last.steps[i].trace, "getWorkflows")
        /\ ~last.steps[i].result.success)
       => ~HasCall(last.steps[j].trace, "getWorkflows")

\* C26: the analyze command's analyzeDocumentCore takes its steps in the
\* fixed order service-account check, file-existence check, client
\* construction, verifyAuth, workflow check, file read, analyzeDocument; the
\* first step that fails ends the call and determines the message, and no
\* later step is executed (no client is built after a missing file, no file
\* is read and nothing is submitted after a missing workflow).
C26_AnalyzeStepOrder ==
  last.op \in {"analyze", "analyzeDocument"}
  => LET order == <<"existsSync", "clientFactory", "verifyAuth", "readFileSync",
                    "analyzeDocument">>
         steps == SelectSeq(last.trace, LAMBDA c : c.fn # "saveConfig")
         n == Len(steps)
         text == last.result.message.text
         passed(c) == c.ret \in {"true", "ok"}
     IN /\ n <= Len(order)
        /\ \A i \in 1..n : steps[i].fn = order[i]
        /\ \A i \in 1..(n - 1) : passed(steps[i])
        /\ last.before.service_account_path = "" <=> n = 0
        /\ n = 0 => text = "No service account configured. Run in interactive mode to set up a service account."
        /\ (n > 0 /\ ~passed(steps[n])) =>
             /\ ~last.result.success
             /\ last.result.exitCode = 1
             /\ text = CASE n = 1 -> "File not found: "
                         [] n = 2 -> "Unexpected error: "
                         [] n = 3 /\ steps[n].ret = "throw" -> "Authentication error: "
                         [] n = 3 /\ steps[n].ret = "false" -> "Authentication failed."
                         [] n = 4 -> "Unexpected error: "
                         [] n = 5 -> "Error submitting document: "
        /\ (n > 0 /\ passed(steps[n])) =>
             \/ /\ n = 3
                /\ last.input.workflow = ""
                /\ text = "No workflow specified. Use --workflow option to specify analysis workflow."
             \/ /\ n = 5
                /\ last.input.workflow # ""
                /\ text \in {"Document submitted successfully!",
                             "Document submitted but no UUID was returned."}

\* The file was missing: the call ended at the existence check, before any
\* client was built.
C26_Witness ==
  /\ last.op = "analyze"
  /\ last.before.service_account_path # ""
  /\ last.trace = <<Call("existsSync", <<"/docs/invoice.pdf">>, "false")>>
  /\ last.result.message = MsgErr("File not found: ", "/docs/invoice.pdf")
  /\ last.result.exitCode = 1

\* C28: if the configuration loaded at session start has a non-empty
\* service_account_path and the client for it is built successfully, then
\* when interactiveMode tests whether the client is initialized the client
\* started by the constructor is already set: the service-account set-up
\* flow is not entered at start-up and service_account_path is not replaced
\* by the default key path.
C28_ConfiguredSessionSkipsSetup ==
  (/\ last.op \in {"runMainMenu", "setupWithExistingDefaultAccount",
                   "guideThroughServiceAccountSetup", "startupDone"}
   /\ last.before.config.service_account_path # ""
   /\ HasCallRet(last.trace, "clientFactory", "ok")
   /\ last.trace[1] = Call("clientFactory", <<last.before.config.service_account_path>>, "ok"))
  => /\ ~last.setupEntered
     /\ config.service_account_path = last.before.config.service_account_path
     /\ disk.service_account_path = last.before.config.service_account_path

C29_ResultsRecordsIdOnlyWhenNew ==
  last.op = "results"
    => LET before == last.before
           uuid == last.input.uuid
           saves == CallsOf(last.trace, "saveConfig")
           records == /\ before.service_account_path # ""
                      /\ HasCallRet(last.trace, "verifyAuth", "true")
                      /\ uuid # ""
                      /\ ~Includes(before.recent_uuids, uuid)
       IN IF records
            THEN /\ config.recent_uuids # before.recent_uuids
                 /\ config.recent_uuids[1] = uuid
                 /\ Len(saves) = 1
                 /\ saves[1].args[1] = config
                 /\ \A i, j \in 1..Len(last.trace) :
                      (last.trace[i].fn = "saveConfig" /\ last.trace[j].fn = "getResults")
                        => i < j
            ELSE /\ config = before
                 /\ disk = before
                 /\ saves = <<>>

\* A new id is put in front of the one already listed and saved, and only then
\* is the remote call made.
C29_Witness ==
  /\ last.op = "results"
  /\ last.input.uuid = "job-b"
  /\ last.before.recent_uuids = <<"job-a">>
  /\ config.recent_uuids = <<"job-b", "job-a">>
  /\ disk = config
  /\ Len(last.trace) = 4
  /\ last.trace[3] = CallSave(config, "ok")
  /\ last.trace[4].fn = "getResults"

\* C30: in every reachable state of the interactive session the workflow
\* cache is consistent: the cached entry is null exactly when its timestamp is
\* 0, and a cached entry that is not null is a response whose success indicator
\* was true; and the entry and the timestamp change only through a successful
\* fetch, which replaces both by the fetched response and the time of the
\* fetch, or through clearWorkflowCache, which resets them to null and 0.
C30_WorkflowCacheConsistent ==
  /\ [](/\ (cachedWorkflows = NullWorkflows) <=> (workflowsCachedAt = 0)
        /\ cachedWorkflows # NullWorkflows
             => /\ cachedWorkflows \in WorkflowResponses
                /\ cachedWorkflows.success)
  /\ [][(cachedWorkflows' # cachedWorkflows \/ workflowsCachedAt' # workflowsCachedAt)
          => \/ /\ last'.op = "clearWorkflowCache"
                /\ cachedWorkflows' = NullWorkflows
                /\ workflowsCachedAt' = 0
             \/ /\ last'.op \in {"getCachedWorkflows", "showDocumentAnalysisMenu"}
                /\ HasCallRet(last'.trace, "getWorkflows", "ok")
                /\ cachedWorkflows' \in WorkflowResponses
                /\ cachedWorkflows'.success
                /\ workflowsCachedAt' \in {now, now'}
                /\ last'.op = "getCachedWorkflows"
                     => /\ cachedWorkflows' = last'.resp
                        /\ last'.result.success]_vars

\* After the cache was cleared at a later time, a fetch fills it again.
C30_Witness ==
  /\ last.op = "getCachedWorkflows"
  /\ last.before.cachedWorkflows = NullWorkflows
  /\ last.before.workflowsCachedAt = 0
  /\ last.input.now = 2 * ClockStep
  /\ cachedWorkflows = last.resp
  /\ cachedWorkflows.success
  /\ workflowsCachedAt = 2 * ClockStep

=============================================================================
